---- MODULE Spec2Model ----
(***************************************************************************)
(* Cart store, cart reconciler and checkout of the Ghana Market Place      *)
(* backend (cart.controller.ts, order.controller.ts, product.controller.ts *)
(* over the drizzle schema of db/schema.ts).                               *)
(*                                                                         *)
(* Every HTTP handler is a little process: it takes one step per awaited   *)
(* database call, and the synchronous code between two awaits belongs to   *)
(* the step of the first.  Spec lets the syncs of several requests         *)
(* interleave at those awaits, as the node event loop does; SpecCart,      *)
(* SpecCheckout and SpecStatus run one request after the other.  Any       *)
(* database call may throw, which the handler's catch turns into a 500.    *)
(***************************************************************************)
EXTENDS Integers, Sequences, FiniteSets, TLC

VARIABLES products, cart, nextCartId, orders, nextOrderId, orderItems,
          req, nProductUpdates, nRequests, staged

vars == <<products, cart, nextCartId, orders, nextOrderId, orderItems,
          req, nProductUpdates, nRequests, staged>>

store == <<products, cart, nextCartId, orders, nextOrderId, orderItems>>

counters == <<nProductUpdates, nRequests>>

(***************************************************************************)
(* Bounds of the model.                                                    *)
(***************************************************************************)
\* largest serial id the cart table hands out
MaxCartId == 3
\* largest serial id the orders table hands out
MaxOrders == 1
\* number of catalog updates in one run
MaxProductUpdates == 1
\* number of requests sent in one concurrent run
MaxRequests == 3

Min(S) == CHOOSE x \in S : \A y \in S : x <= y
Max(S) == CHOOSE x \in S : \A y \in S : x >= y

(***************************************************************************)
(* Optional values: <<>> is undefined/null, <<v>> is the value v.          *)
(***************************************************************************)
None == <<>>
Some(v) == <<v>>

(***************************************************************************)
(* JavaScript conversions.  A property name is a sequence of characters.   *)
(***************************************************************************)
Digits == <<"0", "1", "2", "3", "4", "5", "6", "7", "8", "9">>

IsDigit(c) == \E i \in 1..10 : Digits[i] = c

DigitVal(c) == (CHOOSE i \in 1..10 : Digits[i] = c) - 1

\* the longest run of digits of s that starts at position i
RECURSIVE DigitRun(_, _)
DigitRun(s, i) ==
    IF i > Len(s) \/ ~IsDigit(s[i]) THEN <<>>
    ELSE <<s[i]>> \o DigitRun(s, i + 1)

RECURSIVE DecimalValue(_)
DecimalValue(ds) ==
    IF ds = <<>> THEN 0
    ELSE 10 * DecimalValue(SubSeq(ds, 1, Len(ds) - 1)) + DigitVal(ds[Len(ds)])

RECURSIVE SkipSpaces(_, _)
SkipSpaces(s, i) ==
    IF i <= Len(s) /\ s[i] = " " THEN SkipSpaces(s, i + 1) ELSE i

\* parseInt(s): leading blanks, an optional sign, then the longest run of
\* digits; whatever follows is ignored.  {} is NaN, {n} the number n.
ParseInt(s) ==
    LET i    == SkipSpaces(s, 1)
        neg  == i <= Len(s) /\ s[i] = "-"
        j    == IF i <= Len(s) /\ s[i] \in {"-", "+"} THEN i + 1 ELSE i
        run  == DigitRun(s, j)
    IN  IF run = <<>> THEN {}
        ELSE {IF neg THEN 0 - DecimalValue(run) ELSE DecimalValue(run)}

IsNaN(x) == x = {}

NumberOf(x) == CHOOSE n \in x : TRUE

\* Number.prototype.toString of a non-negative integer
RECURSIVE NumToString(_)
NumToString(n) ==
    IF n < 10 THEN <<Digits[n + 1]>>
    ELSE NumToString(n \div 10) \o <<Digits[(n % 10) + 1]>>

\* Math.max
MathMax(a, b) == IF a >= b THEN a ELSE b

(***************************************************************************)
(* Request inputs.                                                         *)
(***************************************************************************)
\* a falsy user id: req.body.userId and req.user?.id both undefined (or 0)
NoUser == 0
Users == {1, 2}

\* (req.body.userId, req.user?.id) of a request
Identities ==
    { [body |-> NoUser, auth |-> NoUser],
      [body |-> NoUser, auth |-> 1],
      [body |-> NoUser, auth |-> 2],
      [body |-> 2,      auth |-> 1] }

\* const userId = req.body.userId || req.user?.id
ResolveUserId(ident) == IF ident.body # NoUser THEN ident.body ELSE ident.auth

E(k, sizes) == [key |-> k, sizes |-> sizes]
Q(s, q) == [size |-> s, quantity |-> q]
Obj(entries) == [type |-> "object", array |-> FALSE, entries |-> entries]

\* req.body.cartItems: a JSON object lists its integer-like keys first, in
\* ascending order, then its other keys in the order they were written
Undefined == [type |-> "undefined", array |-> FALSE, entries |-> <<>>]
NotAnObject == [type |-> "string", array |-> FALSE, entries |-> <<>>]

\* a JSON array: typeof gives "object" and for-in lists its indices "0", "1",
\* ... as the keys, each element being the value of its index
Arr(elements) ==
    [type |-> "object", array |-> TRUE,
     entries |-> [i \in 1..Len(elements) |-> E(NumToString(i - 1), elements[i])]]

CartInputs ==
    { Undefined,
      NotAnObject,
      Obj(<<>>),
      Obj(<<E(<<"1">>, <<Q("S", 1)>>)>>),
      Obj(<<E(<<"1">>, <<Q("S", 2)>>), E(<<"9">>, <<Q("M", 1)>>)>>),
      Obj(<<E(<<"1">>, <<Q("S", 2), Q("M", 1)>>)>>),
      Obj(<<E(<<"1">>, <<Q("S", 1)>>), E(<<"2">>, <<Q("M", 2)>>)>>),
      Obj(<<E(<<"1">>, <<Q("S", 1)>>), E(<<"0", "1">>, <<Q("S", 3)>>)>>),
      Obj(<<E(<<"2">>, <<Q("M", 0), Q("S", -1)>>),
            E(<<"a", "b", "c">>, <<Q("S", 1)>>)>>),
      Obj(<<E(<<"1", "a", "b">>, <<Q("M", 2)>>)>>) }

GuestInputs ==
    { None,
      Some([name |-> "Ama", email |-> "ama@example.com", phone |-> "0240000000"]),
      Some([name |-> "Ama", email |-> "ama@example.com", phone |-> ""]),
      Some([name |-> "", email |-> "ama@example.com", phone |-> "0240000000"]),
      Some([name |-> "Ama", email |-> "", phone |-> "0240000000"]) }

AddressInputs ==
    { None,
      Some([homeAddress |-> "1 Oxford St", city |-> "Accra",
            regionOrState |-> "Greater Accra", country |-> "Ghana",
            zipCode |-> "00233"]) }

ValidStatuses == {"pending", "processing", "shipped", "delivered", "cancelled"}
ValidPaymentStatuses == {"pending", "paid", "failed"}

StatusInputs == ValidStatuses \cup {"", "refunded"}

StockUpdates == {[inStock |-> FALSE], [inStock |-> TRUE]}
PriceUpdates == {[price |-> 6000]}

(***************************************************************************)
(* The tables (db/schema.ts).                                              *)
(***************************************************************************)
InitialProducts ==
    (1 :> [name |-> "T-Shirt", price |-> 5000, inStock |-> TRUE]) @@
    (2 :> [name |-> "Kente", price |-> 3000, inStock |-> TRUE])

CartRow(id, u, p, s, q) ==
    [id |-> id, userId |-> u, productId |-> p, size |-> s, quantity |-> q]

CartOf(rows, u) == {row \in rows : row.userId = u}

\* a delete with no where clause
WithoutAnyCart(rows, u) == {}

\* db.delete(cart).where(eq(cart.userId, userId))
WithoutCartOf(rows, u) == rows \ CartOf(rows, u)

\* select ... from cart where user_id = u and product_id = p and size = s
CartMatches(rows, u, p, s) ==
    {row \in rows : row.userId = u /\ row.productId = p /\ row.size = s}

\* the foreign key cart.product_id -> products.id
CartForeignKeyOk(p) == p \in DOMAIN products

ItemsOf(items, oid) == {it \in items : it.orderId = oid}

(***************************************************************************)
(* Requests.  req[r] is the handler running in slot r, or the last         *)
(* response of that slot.                                                  *)
(***************************************************************************)
Slots == {1, 2}

NoResponse == [status |-> 0, message |-> "", product |-> "", cartItems |-> {},
               order |-> None, orders |-> {}]

Response(code, msg) == [NoResponse EXCEPT !.status = code, !.message = msg]

EmptyPre == [cart |-> {}, orders |-> {}, orderItems |-> {}]

IdleReq ==
    [op |-> "none", pc |-> "idle", userId |-> NoUser, auth |-> NoUser,
     cartItems |-> Undefined, guestInfo |-> None, shippingAddress |-> None,
     id |-> 0, status |-> "", pi |-> 0, si |-> 0, existingItem |-> None,
     totalAmount |-> 0, orderItemsData |-> <<>>, newOrder |-> None,
     pending |-> {}, failed |-> FALSE, userOrders |-> {},
     pre |-> EmptyPre, retry |-> FALSE, conc |-> FALSE, seq |-> 0,
     resp |-> NoResponse]

InFlight(r) == req[r].pc \notin {"idle", "done"}

Quiet == \A r \in Slots : ~InFlight(r)

\* A request may enter slot r when the slot is free, or when it shows the
\* response to the very sync that is now sent again.
CanBegin(r, op, ident, items) ==
    \/ req[r].pc = "idle"
    \/ /\ req[r].pc = "done"
       /\ op = "syncCart"
       /\ req[r].op = op
       /\ req[r].userId = ResolveUserId(ident)
       /\ req[r].auth = ident.auth
       /\ req[r].cartItems = items

\* The handler starts in slot r; the responses other slots still show have
\* been delivered.
Begin(r, new) ==
    req' = [s \in Slots |->
              IF s = r THEN new
              ELSE IF InFlight(s) THEN req[s] ELSE IdleReq]

\* the response of slot r has been delivered
Deliver(r) ==
    /\ req[r].pc = "done"
    /\ req' = [req EXCEPT ![r] = IdleReq]
    /\ UNCHANGED <<store, counters, staged>>

\* the request as the handler sees it on entry
NewReq(r, op, ident, items) ==
    [IdleReq EXCEPT
       !.op = op, !.userId = ResolveUserId(ident), !.auth = ident.auth,
       !.cartItems = items,
       !.pre = [cart |-> cart, orders |-> orders, orderItems |-> orderItems],
       !.conc = \E s \in Slots \ {r} : InFlight(s),
       !.seq = nRequests,
       !.retry = /\ req[r].pc = "done"
                 /\ req[r].resp.status = 200
                 /\ ~req[r].conc
                 /\ Quiet]

\* res.status(code).json(...)
Reply(q, resp) == [q EXCEPT !.pc = "done", !.resp = resp]

\* !cartItems || typeof cartItems !== "object"
InvalidCartItems(items) == items.type # "object"

\* first index j >= i of a key parseInt reads as a number (isNaN: continue)
NumericFrom(entries, i) ==
    LET S == {j \in i..Len(entries) : ~IsNaN(ParseInt(entries[j].key))}
    IN  IF S = {} THEN Len(entries) + 1 ELSE Min(S)

\* no size is skipped, whatever its quantity
AnyFrom(sizes, j) == j

\* first index k >= j of a size with quantity > 0
PositiveFrom(sizes, j) ==
    LET S == {k \in j..Len(sizes) : sizes[k].quantity > 0}
    IN  IF S = {} THEN Len(sizes) + 1 ELSE Min(S)

\* number of cart rows a snapshot can make a handler insert: one per
\* quantity > 0 under a key that names a product of the catalog
InsertCount(items) ==
    LET n == Len(items.entries)
        Cnt(i) == IF ParseInt(items.entries[i].key) \cap DOMAIN products = {}
                  THEN 0
                  ELSE Cardinality({k \in 1..Len(items.entries[i].sizes) :
                                      items.entries[i].sizes[k].quantity > 0})
        Sum[i \in 0..n] == IF i = 0 THEN 0 ELSE Sum[i - 1] + Cnt(i)
    IN  Sum[n]

CartIdsLeft(items) == nextCartId + InsertCount(items) <= MaxCartId + 1

(***************************************************************************)
(* GET /api/v1/cart                                                        *)
(***************************************************************************)
\* item.size || "default"
SizeLabel(s) == IF s = "" THEN "default" ELSE s

\* The { [productId]: { [size]: quantity } } object built from the rows of a
\* select without ORDER BY: of several rows with one key any may come last.
SnapshotsOf(rows) ==
    LET KeyOf(row) == <<NumToString(row.productId), SizeLabel(row.size)>>
        Keys == {KeyOf(row) : row \in rows}
        Qs == {row.quantity : row \in rows}
        Choices == {f \in [Keys -> Qs] :
                      \A k \in Keys : \E row \in rows :
                          KeyOf(row) = k /\ row.quantity = f[k]}
    IN  {{[productId |-> k[1], size |-> k[2], quantity |-> f[k]] : k \in Keys}
            : f \in Choices}

StartGetUserCart(r, ident) ==
    LET q == NewReq(r, "getUserCart", ident, Undefined)
    IN  /\ CanBegin(r, "getUserCart", ident, Undefined)
        /\ Begin(r, IF q.userId = NoUser
                     THEN Reply(q, Response(401, "Authentication required"))
                     ELSE [q EXCEPT !.pc = "get_select"])
        /\ UNCHANGED <<store, nProductUpdates, staged>>

GetUserCartSelect(r) ==
    /\ req[r].pc = "get_select"
    /\ \E snap \in SnapshotsOf(CartOf(cart, req[r].userId)) :
          req' = [req EXCEPT ![r] =
                    Reply(@, [Response(200, "") EXCEPT !.cartItems = snap])]
    /\ UNCHANGED <<store, counters, staged>>

(***************************************************************************)
(* POST /api/v1/cart/sync                                                  *)
(***************************************************************************)
\* where the loop over the products awaits next, from entry i on: the
\* existence check of the next numeric key, or the final select
SyncProduct(q, i) ==
    LET j == NumericFrom(q.cartItems.entries, i)
    IN  IF j <= Len(q.cartItems.entries)
        THEN [q EXCEPT !.pc = "sync_product", !.pi = j, !.si = 0]
        ELSE [q EXCEPT !.pc = "sync_final", !.pi = j, !.si = 0]

\* where the loop over the sizes of product q.pi awaits next, after size si
SyncSize(q, si) ==
    LET sizes == q.cartItems.entries[q.pi].sizes
        k == PositiveFrom(sizes, si + 1)
    IN  IF k <= Len(sizes)
        THEN [q EXCEPT !.pc = "sync_existing", !.si = k, !.existingItem = None]
        ELSE SyncProduct(q, q.pi + 1)

StartSyncCart(r, ident, items) ==
    LET q == NewReq(r, "syncCart", ident, items)
    IN  /\ CanBegin(r, "syncCart", ident, items)
        /\ CartIdsLeft(items)
        /\ Begin(r, IF q.userId = NoUser
                     THEN Reply(q, Response(401, "Authentication required"))
                     ELSE IF InvalidCartItems(items)
                     THEN Reply(q, Response(400, "Valid cart data required"))
                     ELSE SyncProduct(q, 1))
        /\ UNCHANGED <<store, nProductUpdates, staged>>

\* Verify product exists
SyncProductExists(r) ==
    LET q == req[r]
        productIdNum == NumberOf(ParseInt(q.cartItems.entries[q.pi].key))
    IN  /\ q.pc = "sync_product"
        /\ req' = [req EXCEPT ![r] =
                     IF productIdNum \in DOMAIN products
                     THEN SyncSize(q, 0)
                     ELSE SyncProduct(q, q.pi + 1)]
        /\ UNCHANGED <<store, counters, staged>>

\* Check if item already exists in user's cart: select ... limit 1, which
\* returns any one of the matching rows
SyncExistingItem(r) ==
    LET q == req[r]
        productIdNum == NumberOf(ParseInt(q.cartItems.entries[q.pi].key))
        size == q.cartItems.entries[q.pi].sizes[q.si].size
        found == CartMatches(cart, q.userId, productIdNum, size)
    IN  /\ q.pc = "sync_existing"
        /\ \/ /\ found = {}
              /\ req' = [req EXCEPT ![r].pc = "sync_write",
                                    ![r].existingItem = None]
           \/ \E row \in found :
                 req' = [req EXCEPT ![r].pc = "sync_write",
                                    ![r].existingItem = Some(row)]
        /\ UNCHANGED <<store, counters, staged>>

\* the merge overwrites the stored quantity with the incoming one
OverwrittenQuantity(existing, quantity) == quantity

\* the quantity the update writes: Math.max(existingItem[0].quantity, quantity)
MergedQuantity(existing, quantity) == MathMax(existing, quantity)

\* update cart set quantity = n where id = ...
UpdateCartQuantity(rows, id, n) ==
    {IF row.id = id THEN [row EXCEPT !.quantity = n] ELSE row : row \in rows}

\* Update existing item - use max quantity / Insert new item
SyncWrite(r) ==
    LET q == req[r]
        productIdNum == NumberOf(ParseInt(q.cartItems.entries[q.pi].key))
        size == q.cartItems.entries[q.pi].sizes[q.si].size
        quantity == q.cartItems.entries[q.pi].sizes[q.si].quantity
    IN  /\ q.pc = "sync_write"
        /\ \/ /\ q.existingItem # None
              /\ cart' = UpdateCartQuantity(cart, q.existingItem[1].id,
                            MergedQuantity(q.existingItem[1].quantity, quantity))
              /\ UNCHANGED nextCartId
           \/ /\ q.existingItem = None
              /\ CartForeignKeyOk(productIdNum)
              /\ nextCartId <= MaxCartId
              /\ cart' = cart \cup
                    {CartRow(nextCartId, q.userId, productIdNum, size, quantity)}
              /\ nextCartId' = nextCartId + 1
        /\ req' = [req EXCEPT ![r] = SyncSize(q, q.si)]
        /\ UNCHANGED <<products, orders, nextOrderId, orderItems,
                       nProductUpdates, nRequests, staged>>

\* Return updated cart in frontend format
SyncFinalSelect(r) ==
    /\ req[r].pc = "sync_final"
    /\ \E snap \in SnapshotsOf(CartOf(cart, req[r].userId)) :
          req' = [req EXCEPT ![r] =
                    Reply(@, [Response(200, "Cart synced successfully")
                                EXCEPT !.cartItems = snap])]
    /\ UNCHANGED <<store, counters, staged>>

(***************************************************************************)
(* POST /api/v1/cart/save                                                  *)
(***************************************************************************)
\* The whole loop of syncCart as a function of the stored rows, for a sync
\* that runs alone against an unchanged catalog: the merges it makes, in the
\* order of the snapshot, and the row sets it can leave (one per choice of
\* the row that "limit 1" returns).
SyncMerges(items) ==
    LET PerEntry(e) ==
          LET p == ParseInt(e.key)
          IN  IF IsNaN(p) \/ NumberOf(p) \notin DOMAIN products THEN <<>>
              ELSE LET keep == SelectSeq(e.sizes, LAMBDA z : z.quantity > 0)
                   IN  [k \in 1..Len(keep) |->
                          <<NumberOf(p), keep[k].size, keep[k].quantity>>]
        All[i \in 0..Len(items.entries)] ==
          IF i = 0 THEN <<>> ELSE All[i - 1] \o PerEntry(items.entries[i])
    IN  All[Len(items.entries)]

FreshCartId(rows) == IF rows = {} THEN 1 ELSE Max({row.id : row \in rows}) + 1

RECURSIVE SyncOutcomes(_, _, _)
SyncOutcomes(rows, u, merges) ==
    IF merges = <<>> THEN {rows}
    ELSE LET m == Head(merges)
             found == CartMatches(rows, u, m[1], m[2])
             next == IF found = {}
                     THEN {rows \cup {CartRow(FreshCartId(rows), u, m[1], m[2], m[3])}}
                     ELSE {UpdateCartQuantity(rows, row.id,
                                MergedQuantity(row.quantity, m[3])) : row \in found}
         IN  UNION {SyncOutcomes(n, u, Tail(merges)) : n \in next}

\* where the insert loop awaits next, after size si of entry pi: the next
\* quantity > 0 under a numeric key, or the response
RECURSIVE SaveNext(_, _, _)
SaveNext(q, pi, si) ==
    IF pi > Len(q.cartItems.entries)
    THEN Reply(q, Response(200, "Cart saved successfully"))
    ELSE IF IsNaN(ParseInt(q.cartItems.entries[pi].key))
    THEN SaveNext(q, pi + 1, 0)
    ELSE LET sizes == q.cartItems.entries[pi].sizes
             k == PositiveFrom(sizes, si + 1)
         IN  IF k <= Len(sizes)
             THEN [q EXCEPT !.pc = "save_insert", !.pi = pi, !.si = k]
             ELSE SaveNext(q, pi + 1, 0)

StartSaveCart(r, ident, items) ==
    LET q == NewReq(r, "saveCart", ident, items)
    IN  /\ CanBegin(r, "saveCart", ident, items)
        /\ CartIdsLeft(items)
        /\ Begin(r, IF q.userId = NoUser
                     THEN Reply(q, Response(401, "Authentication required"))
                     ELSE IF InvalidCartItems(items)
                     THEN Reply(q, Response(400, "Valid cart data required"))
                     ELSE [q EXCEPT !.pc = "save_delete"])
        /\ UNCHANGED <<store, nProductUpdates, staged>>

\* Clear existing cart
SaveDelete(r) ==
    /\ req[r].pc = "save_delete"
    /\ cart' = WithoutCartOf(cart, req[r].userId)
    /\ req' = [req EXCEPT ![r] = SaveNext(@, 1, 0)]
    /\ UNCHANGED <<products, nextCartId, orders, nextOrderId, orderItems,
                   nProductUpdates, nRequests, staged>>

\* Insert all cart items: one insert; an unknown product id violates the
\* foreign key and the insert throws
SaveInsert(r) ==
    LET q == req[r]
        productIdNum == NumberOf(ParseInt(q.cartItems.entries[q.pi].key))
        size == q.cartItems.entries[q.pi].sizes[q.si].size
        quantity == q.cartItems.entries[q.pi].sizes[q.si].quantity
    IN  /\ q.pc = "save_insert"
        /\ \/ /\ CartForeignKeyOk(productIdNum)
              /\ nextCartId <= MaxCartId
              /\ cart' = cart \cup
                    {CartRow(nextCartId, q.userId, productIdNum, size, quantity)}
              /\ nextCartId' = nextCartId + 1
              /\ req' = [req EXCEPT ![r] = SaveNext(q, q.pi, q.si)]
           \/ /\ ~CartForeignKeyOk(productIdNum)
              /\ req' = [req EXCEPT ![r] =
                           Reply(q, Response(500, "Error saving cart"))]
              /\ UNCHANGED <<cart, nextCartId>>
        /\ UNCHANGED <<products, orders, nextOrderId, orderItems,
                       nProductUpdates, nRequests, staged>>

(***************************************************************************)
(* DELETE /api/v1/cart                                                     *)
(***************************************************************************)
StartClearCart(r, ident) ==
    LET q == NewReq(r, "clearCart", ident, Undefined)
    IN  /\ CanBegin(r, "clearCart", ident, Undefined)
        /\ Begin(r, IF q.userId = NoUser
                     THEN Reply(q, Response(401, "Authentication required"))
                     ELSE [q EXCEPT !.pc = "clear_delete"])
        /\ UNCHANGED <<store, nProductUpdates, staged>>

ClearDelete(r) ==
    /\ req[r].pc = "clear_delete"
    /\ cart' = WithoutCartOf(cart, req[r].userId)
    /\ req' = [req EXCEPT ![r] =
                 Reply(@, Response(200, "Cart cleared successfully"))]
    /\ UNCHANGED <<products, nextCartId, orders, nextOrderId, orderItems,
                   nProductUpdates, nRequests, staged>>

(***************************************************************************)
(* POST /api/v1/orders (checkout)                                          *)
(***************************************************************************)
Anonymous == [body |-> NoUser, auth |-> NoUser]
Owner == [body |-> NoUser, auth |-> 1]

\* guestInfo && (!guestInfo.name || !guestInfo.email || !guestInfo.phone)
\* the guest's phone is not required
GuestInfoWithoutPhoneCheck(g) ==
    g # None /\ (g[1].name = "" \/ g[1].email = "")

IncompleteGuestInfo(g) ==
    g # None /\ (g[1].name = "" \/ g[1].email = "" \/ g[1].phone = "")

\* the lines staged for a product: one per size with quantity > 0
StagedLines(productIdNum, productData, sizes) ==
    LET keep == SelectSeq(sizes, LAMBDA e : e.quantity > 0)
    IN  [k \in 1..Len(keep) |->
            [productId |-> productIdNum, quantity |-> keep[k].quantity,
             price |-> productData.price, size |-> keep[k].size]]

\* the total adds the unit prices and forgets the quantities
RECURSIVE LinesTotalOfPrices(_)
LinesTotalOfPrices(lines) ==
    IF lines = <<>> THEN 0
    ELSE lines[1].price + LinesTotalOfPrices(Tail(lines))

\* totalAmount += parseFloat(productData.price) * quantity, over the lines
RECURSIVE LinesTotal(_)
LinesTotal(lines) ==
    IF lines = <<>> THEN 0
    ELSE lines[1].price * lines[1].quantity + LinesTotal(Tail(lines))

\* the order is inserted even when no line was staged
OrderProductNoEmptyCheck(q, i) ==
    LET j == NumericFrom(q.cartItems.entries, i)
    IN  IF j <= Len(q.cartItems.entries)
        THEN [q EXCEPT !.pc = "order_product", !.pi = j]
        ELSE [q EXCEPT !.pc = "order_insert", !.pi = j]

\* where the loop over the products awaits next, from entry i on: the
\* lookup of the next numeric key; after the loop, the empty-cart check
OrderProduct(q, i) ==
    LET j == NumericFrom(q.cartItems.entries, i)
    IN  IF j <= Len(q.cartItems.entries)
        THEN [q EXCEPT !.pc = "order_product", !.pi = j]
        ELSE IF Len(q.orderItemsData) = 0
        THEN Reply(q, Response(400, "No valid items in cart"))
        ELSE [q EXCEPT !.pc = "order_insert", !.pi = j]

\* the shipping address is looked at before the cart snapshot
StartCreateOrderAddressFirst(r, ident, items, guest, address) ==
    LET q == [NewReq(r, "createOrder", ident, items) EXCEPT
                !.guestInfo = guest, !.shippingAddress = address]
    IN  /\ CanBegin(r, "createOrder", ident, items)
        /\ nextOrderId <= MaxOrders
        /\ Begin(r,
             IF q.userId = NoUser /\ guest = None
             THEN Reply(q, Response(400,
                    "Guest information (name, email, phone) is required for guest checkout"))
             ELSE IF IncompleteGuestInfo(guest)
             THEN Reply(q, Response(400, "Guest name, email, and phone are required"))
             ELSE IF address = None
             THEN Reply(q, Response(400, "Shipping address is required"))
             ELSE IF InvalidCartItems(items)
             THEN Reply(q, Response(400, "Cart items are required"))
             ELSE OrderProduct(q, 1))
        /\ UNCHANGED <<store, nProductUpdates, staged>>

\* the owner's cart is cleared on entry, before anything is validated
StartCreateOrderClearsFirst(r, ident, items, guest, address) ==
    LET q == [NewReq(r, "createOrder", ident, items) EXCEPT
                !.guestInfo = guest, !.shippingAddress = address]
    IN  /\ CanBegin(r, "createOrder", ident, items)
        /\ nextOrderId <= MaxOrders
        /\ Begin(r,
             IF q.userId = NoUser /\ guest = None
             THEN Reply(q, Response(400,
                    "Guest information (name, email, phone) is required for guest checkout"))
             ELSE IF IncompleteGuestInfo(guest)
             THEN Reply(q, Response(400, "Guest name, email, and phone are required"))
             ELSE IF InvalidCartItems(items)
             THEN Reply(q, Response(400, "Cart items are required"))
             ELSE IF address = None
             THEN Reply(q, Response(400, "Shipping address is required"))
             ELSE OrderProduct(q, 1))
        /\ cart' = WithoutCartOf(cart, q.userId)
        /\ UNCHANGED <<products, nextCartId, orders, nextOrderId, orderItems,
                       nProductUpdates, staged>>

StartCreateOrder(r, ident, items, guest, address) ==
    LET q == [NewReq(r, "createOrder", ident, items) EXCEPT
                !.guestInfo = guest, !.shippingAddress = address]
    IN  /\ CanBegin(r, "createOrder", ident, items)
        /\ nextOrderId <= MaxOrders
        /\ Begin(r,
             IF q.userId = NoUser /\ guest = None
             THEN Reply(q, Response(400,
                    "Guest information (name, email, phone) is required for guest checkout"))
             ELSE IF IncompleteGuestInfo(guest)
             THEN Reply(q, Response(400, "Guest name, email, and phone are required"))
             ELSE IF InvalidCartItems(items)
             THEN Reply(q, Response(400, "Cart items are required"))
             ELSE IF address = None
             THEN Reply(q, Response(400, "Shipping address is required"))
             ELSE OrderProduct(q, 1))
        /\ UNCHANGED <<store, nProductUpdates, staged>>

\* the stock flag is never looked at
StockUnchecked(productData) == FALSE

\* the stock check is inverted
OutOfStockInverted(productData) == productData.inStock

\* Check if product is in stock
OutOfStock(productData) == ~productData.inStock

\* the stock flag is looked at only for a product that gives a line
OrderProductLookupStockPerLine(r) ==
    LET q == req[r]
        productIdNum == NumberOf(ParseInt(q.cartItems.entries[q.pi].key))
        productData == products[productIdNum]
        lines == StagedLines(productIdNum, productData,
                             q.cartItems.entries[q.pi].sizes)
    IN  /\ q.pc = "order_product"
        /\ req' = [req EXCEPT ![r] =
              IF productIdNum \notin DOMAIN products
              THEN OrderProduct(q, q.pi + 1)
              ELSE IF Len(lines) > 0 /\ OutOfStock(productData)
              THEN Reply(q, [Response(400, "is out of stock")
                               EXCEPT !.product = productData.name])
              ELSE OrderProduct(
                     [q EXCEPT !.totalAmount = @ + LinesTotal(lines),
                               !.orderItemsData = @ \o lines],
                     q.pi + 1)]
        /\ UNCHANGED <<store, counters, staged>>

\* Fetch product details, check the stock flag, process each size variant
OrderProductLookup(r) ==
    LET q == req[r]
        productIdNum == NumberOf(ParseInt(q.cartItems.entries[q.pi].key))
        productData == products[productIdNum]
        lines == StagedLines(productIdNum, productData,
                             q.cartItems.entries[q.pi].sizes)
    IN  /\ q.pc = "order_product"
        /\ req' = [req EXCEPT ![r] =
              IF productIdNum \notin DOMAIN products
              THEN OrderProduct(q, q.pi + 1)
              ELSE IF OutOfStock(productData)
              THEN Reply(q, [Response(400, "is out of stock")
                               EXCEPT !.product = productData.name])
              ELSE OrderProduct(
                     [q EXCEPT !.totalAmount = @ + LinesTotal(lines),
                               !.orderItemsData = @ \o lines],
                     q.pi + 1)]
        /\ UNCHANGED <<store, counters, staged>>

\* Create order (with guest info if guest checkout)
OrderInsert(r) ==
    LET q == req[r]
        row == [id |-> nextOrderId,
                userId |-> q.userId,
                totalAmount |-> q.totalAmount,
                status |-> "pending",
                shippingAddress |-> q.shippingAddress,
                guestInfo |-> q.guestInfo,
                paymentStatus |-> "pending"]
    IN  /\ q.pc = "order_insert"
        /\ nextOrderId <= MaxOrders
        /\ orders' = orders \cup {row}
        /\ nextOrderId' = nextOrderId + 1
        /\ staged' = staged @@ (row.id :> Len(q.orderItemsData))
        /\ req' = [req EXCEPT ![r].pc = "order_items",
                              ![r].newOrder = Some(row),
                              ![r].pending = 1..Len(q.orderItemsData)]
        /\ UNCHANGED <<products, cart, nextCartId, orderItems, counters>>

\* the line takes the catalog price of the moment it is inserted
OrderItemRowCatalogPrice(q, i) ==
    [orderId |-> q.newOrder[1].id, line |-> i,
     productId |-> q.orderItemsData[i].productId,
     quantity |-> q.orderItemsData[i].quantity,
     price |-> products[q.orderItemsData[i].productId].price,
     size |-> q.orderItemsData[i].size]

\* the order-item row of staged line i
OrderItemRow(q, i) ==
    [orderId |-> q.newOrder[1].id, line |-> i,
     productId |-> q.orderItemsData[i].productId,
     quantity |-> q.orderItemsData[i].quantity,
     price |-> q.orderItemsData[i].price,
     size |-> q.orderItemsData[i].size]

Created(q) ==
    [Response(201, "Order created successfully") EXCEPT
       !.order = Some([row |-> q.newOrder[1],
                       items |-> {OrderItemRow(q, i) :
                                    i \in 1..Len(q.orderItemsData)}])]

\* after Promise.all settles: the catch, the cart clear, or the response
\* the owner's cart is left as it is after the order
OrderSettledCartKept(q) ==
    IF q.pending # {} THEN q
    ELSE IF q.failed THEN Reply(q, Response(500, "Error creating order"))
    ELSE Reply(q, Created(q))

OrderSettled(q) ==
    IF q.pending # {} THEN q
    ELSE IF q.failed THEN Reply(q, Response(500, "Error creating order"))
    ELSE IF q.userId # NoUser THEN [q EXCEPT !.pc = "order_clear"]
    ELSE Reply(q, Created(q))

\* Insert order items: Promise.all issues the inserts together, each is a
\* statement of its own and they complete in any order
OrderItemInsert(r) ==
    /\ req[r].pc = "order_items"
    /\ \E i \in req[r].pending :
          /\ req[r].orderItemsData[i].productId \in DOMAIN products
          /\ orderItems' = orderItems \cup {OrderItemRow(req[r], i)}
          /\ req' = [req EXCEPT ![r] =
                       OrderSettled([@ EXCEPT !.pending = @ \ {i}])]
    /\ UNCHANGED <<products, cart, nextCartId, orders, nextOrderId,
                   nProductUpdates, nRequests, staged>>

\* one of the inserts throws; the others are already under way
OrderItemFails(r) ==
    /\ req[r].pc = "order_items"
    /\ \E i \in req[r].pending :
          req' = [req EXCEPT ![r] =
                    OrderSettled([@ EXCEPT !.pending = @ \ {i},
                                           !.failed = TRUE])]
    /\ UNCHANGED <<store, counters, staged>>

\* Clear user's cart from database (only if authenticated user)
OrderClearCart(r) ==
    /\ req[r].pc = "order_clear"
    /\ cart' = WithoutCartOf(cart, req[r].userId)
    /\ req' = [req EXCEPT ![r] = Reply(@, Created(@))]
    /\ UNCHANGED <<products, nextCartId, orders, nextOrderId, orderItems,
                   nProductUpdates, nRequests, staged>>

(***************************************************************************)
(* PUT /api/v1/orders/:id and PUT /api/v1/orders/:id/payment               *)
(***************************************************************************)
IdInputs == {<<"1">>, <<"2">>, <<"x">>}

OrdersWithId(rows, id) == {o \in rows : o.id = id}

\* the requested status is not compared with the list of valid statuses
StartUpdateOrderStatusUnvalidated(r, id, status) ==
    LET q == [NewReq(r, "updateOrderStatus", Anonymous, Undefined) EXCEPT
                !.id = IF IsNaN(ParseInt(id)) THEN 0 ELSE NumberOf(ParseInt(id)),
                !.status = status]
    IN  /\ CanBegin(r, "updateOrderStatus", Anonymous, Undefined)
        /\ Begin(r,
             IF IsNaN(ParseInt(id))
             THEN Reply(q, Response(400, "Invalid order ID"))
             ELSE IF status = ""
             THEN Reply(q, Response(400, "Status is required"))
             ELSE [q EXCEPT !.pc = "status_select"])
        /\ UNCHANGED <<store, nProductUpdates, staged>>

StartUpdateOrderStatus(r, id, status) ==
    LET q == [NewReq(r, "updateOrderStatus", Anonymous, Undefined) EXCEPT
                !.id = IF IsNaN(ParseInt(id)) THEN 0 ELSE NumberOf(ParseInt(id)),
                !.status = status]
    IN  /\ CanBegin(r, "updateOrderStatus", Anonymous, Undefined)
        /\ Begin(r,
             IF IsNaN(ParseInt(id))
             THEN Reply(q, Response(400, "Invalid order ID"))
             ELSE IF status = ""
             THEN Reply(q, Response(400, "Status is required"))
             ELSE IF status \notin ValidStatuses
             THEN Reply(q, Response(400, "Invalid status"))
             ELSE [q EXCEPT !.pc = "status_select"])
        /\ UNCHANGED <<store, nProductUpdates, staged>>

\* the update is made without looking for the order first
StatusSelectNoCheck(r) ==
    /\ req[r].pc = "status_select"
    /\ req' = [req EXCEPT ![r].pc = "status_update"]
    /\ UNCHANGED <<store, counters, staged>>

\* Check if order exists
StatusSelect(r) ==
    /\ req[r].pc = "status_select"
    /\ req' = [req EXCEPT ![r] =
                 IF OrdersWithId(orders, req[r].id) = {}
                 THEN Reply(@, Response(404, "Order not found"))
                 ELSE [@ EXCEPT !.pc = "status_update"]]
    /\ UNCHANGED <<store, counters, staged>>

\* the update also sets the payment status back to pending
SetOrderStatusResetsPayment(rows, id, status) ==
    {IF o.id = id THEN [o EXCEPT !.status = status, !.paymentStatus = "pending"]
     ELSE o : o \in rows}

\* update orders set status = ... where id = ...
SetOrderStatus(rows, id, status) ==
    {IF o.id = id THEN [o EXCEPT !.status = status] ELSE o : o \in rows}

\* Update order status
StatusUpdate(r) ==
    /\ req[r].pc = "status_update"
    /\ orders' = SetOrderStatus(orders, req[r].id, req[r].status)
    /\ req' = [req EXCEPT ![r] =
                 Reply(@, Response(200, "Order status updated successfully"))]
    /\ UNCHANGED <<products, cart, nextCartId, nextOrderId, orderItems,
                   nProductUpdates, nRequests, staged>>

StartUpdatePaymentStatus(r, id, paymentStatus) ==
    LET q == [NewReq(r, "updatePaymentStatus", Anonymous, Undefined) EXCEPT
                !.id = IF IsNaN(ParseInt(id)) THEN 0 ELSE NumberOf(ParseInt(id)),
                !.status = paymentStatus]
    IN  /\ CanBegin(r, "updatePaymentStatus", Anonymous, Undefined)
        /\ Begin(r,
             IF IsNaN(ParseInt(id))
             THEN Reply(q, Response(400, "Invalid order ID"))
             ELSE IF paymentStatus = ""
             THEN Reply(q, Response(400, "Payment status is required"))
             ELSE IF paymentStatus \notin ValidPaymentStatuses
             THEN Reply(q, Response(400, "Invalid payment status"))
             ELSE [q EXCEPT !.pc = "payment_update"])
        /\ UNCHANGED <<store, nProductUpdates, staged>>

\* Update payment status
PaymentUpdate(r) ==
    /\ req[r].pc = "payment_update"
    /\ orders' = {IF o.id = req[r].id
                  THEN [o EXCEPT !.paymentStatus = req[r].status] ELSE o
                    : o \in orders}
    /\ req' = [req EXCEPT ![r] =
                 IF OrdersWithId(orders, req[r].id) = {}
                 THEN Reply(@, Response(404, "Order not found"))
                 ELSE Reply(@, Response(200, "Payment status updated successfully"))]
    /\ UNCHANGED <<products, cart, nextCartId, nextOrderId, orderItems,
                   nProductUpdates, nRequests, staged>>

(***************************************************************************)
(* GET /api/v1/orders and GET /api/v1/orders/:id                           *)
(***************************************************************************)
StartGetUserOrders(r, ident) ==
    LET q == NewReq(r, "getUserOrders", ident, Undefined)
    IN  /\ CanBegin(r, "getUserOrders", ident, Undefined)
        /\ Begin(r, IF q.userId = NoUser
                     THEN Reply(q, Response(401, "Authentication required"))
                     ELSE [q EXCEPT !.pc = "orders_select"])
        /\ UNCHANGED <<store, nProductUpdates, staged>>

\* res.json({ success: true, count, data: ordersWithItems })
Listed(q) == Reply(q, [Response(200, "") EXCEPT !.orders = q.userOrders])

\* Fetch user's orders: select ... from orders where user_id = userId; then
\* Promise.all starts one select of the items per order
GetUserOrdersSelect(r) ==
    LET userOrders == {o \in orders : o.userId = req[r].userId}
    IN  /\ req[r].pc = "orders_select"
        /\ req' = [req EXCEPT ![r] =
                     IF userOrders = {} THEN Listed(@)
                     ELSE [@ EXCEPT !.pc = "orders_items",
                                    !.pending = userOrders]]
        /\ UNCHANGED <<store, counters, staged>>

\* Fetch order items for each order: the selects complete in any order
GetUserOrdersItems(r) ==
    /\ req[r].pc = "orders_items"
    /\ \E o \in req[r].pending :
          LET q == [req[r] EXCEPT
                      !.pending = @ \ {o},
                      !.userOrders = @ \cup
                         {[row |-> o, items |-> ItemsOf(orderItems, o.id)]}]
          IN  req' = [req EXCEPT ![r] = IF q.pending = {} THEN Listed(q) ELSE q]
    /\ UNCHANGED <<store, counters, staged>>

StartGetOrderById(r, ident, id) ==
    LET q == [NewReq(r, "getOrderById", ident, Undefined) EXCEPT
                !.id = IF IsNaN(ParseInt(id)) THEN 0 ELSE NumberOf(ParseInt(id))]
    IN  /\ CanBegin(r, "getOrderById", ident, Undefined)
        /\ Begin(r,
             IF q.userId = NoUser
             THEN Reply(q, Response(401, "Authentication required"))
             ELSE IF IsNaN(ParseInt(id))
             THEN Reply(q, Response(400, "Invalid order ID"))
             ELSE [q EXCEPT !.pc = "order_select"])
        /\ UNCHANGED <<store, nProductUpdates, staged>>

\* Fetch order: select ... where id = orderId and user_id = userId limit 1
GetOrderSelect(r) ==
    LET found == {o \in OrdersWithId(orders, req[r].id) :
                     o.userId = req[r].userId}
    IN  /\ req[r].pc = "order_select"
        /\ \/ /\ found = {}
              /\ req' = [req EXCEPT ![r] =
                           Reply(@, Response(404, "Order not found"))]
           \/ \E o \in found :
                 req' = [req EXCEPT ![r].pc = "order_read_items",
                                    ![r].newOrder = Some(o)]
        /\ UNCHANGED <<store, counters, staged>>

\* Fetch order items: select ... from order_items where order_id = orderId
GetOrderItems(r) ==
    /\ req[r].pc = "order_read_items"
    /\ req' = [req EXCEPT ![r] =
                 Reply(req[r], [Response(200, "") EXCEPT
                    !.order = Some([row |-> req[r].newOrder[1],
                                    items |-> ItemsOf(orderItems, req[r].id)])])]
    /\ UNCHANGED <<store, counters, staged>>

(***************************************************************************)
(* PATCH /api/v1/products/product/:id                                      *)
(***************************************************************************)
\* update products set ...updates where id = productId: one statement
UpdateProduct(productId, updates) ==
    /\ nProductUpdates < MaxProductUpdates
    /\ productId \in DOMAIN products
    /\ products' = [products EXCEPT ![productId] =
                      [f \in DOMAIN @ |->
                         IF f \in DOMAIN updates THEN updates[f] ELSE @[f]]]
    /\ products' # products
    /\ nProductUpdates' = nProductUpdates + 1
    /\ req' = [s \in Slots |-> IF InFlight(s) THEN req[s] ELSE IdleReq]
    /\ UNCHANGED <<cart, nextCartId, orders, nextOrderId, orderItems,
                   nRequests, staged>>

(***************************************************************************)
(* A database call throws (storage unavailable): the handler's catch       *)
(* answers 500.  The inserts of Promise.all fail one by one, see           *)
(* OrderItemFails.                                                         *)
(***************************************************************************)
\* DELETE /product/:id: one delete statement; the foreign keys of cart and
\* order_items (ON DELETE no action) make it throw while a row names the
\* product, and the handler answers 500
ProductReferenced(productId) ==
    \/ \E row \in cart : row.productId = productId
    \/ \E it \in orderItems : it.productId = productId

DeleteProduct(productId) ==
    /\ nProductUpdates < MaxProductUpdates
    /\ productId \in DOMAIN products
    /\ products' = IF ProductReferenced(productId) THEN products
                   ELSE [p \in DOMAIN products \ {productId} |-> products[p]]
    /\ nProductUpdates' = nProductUpdates + 1
    /\ req' = [s \in Slots |-> IF InFlight(s) THEN req[s] ELSE IdleReq]
    /\ UNCHANGED <<cart, nextCartId, orders, nextOrderId, orderItems,
                   nRequests, staged>>

ErrorMessage(op) ==
    CASE op = "getUserCart" -> "Error fetching cart"
      [] op = "syncCart" -> "Error syncing cart"
      [] op = "saveCart" -> "Error saving cart"
      [] op = "clearCart" -> "Error clearing cart"
      [] op = "createOrder" -> "Error creating order"
      [] op = "getUserOrders" -> "Error fetching orders"
      [] op = "getOrderById" -> "Error fetching order"
      [] op = "updateOrderStatus" -> "Error updating order"
      [] op = "updatePaymentStatus" -> "Error updating payment status"

\* a failed cart clear takes the order and its lines back
StorageFailsRollsBack(r) ==
    /\ InFlight(r)
    /\ req[r].pc # "order_items"
    /\ req' = [req EXCEPT ![r] = Reply(@, Response(500, ErrorMessage(@.op)))]
    /\ orders' = IF req[r].pc = "order_clear"
                 THEN orders \ {req[r].newOrder[1]} ELSE orders
    /\ orderItems' = IF req[r].pc = "order_clear"
                     THEN orderItems \ ItemsOf(orderItems, req[r].newOrder[1].id)
                     ELSE orderItems
    /\ UNCHANGED <<products, cart, nextCartId, nextOrderId, counters, staged>>

\* any awaited call of the handler throws; its catch logs and answers 500
StorageFails(r) ==
    /\ InFlight(r)
    /\ req[r].pc # "order_items"
    /\ req' = [req EXCEPT ![r] = Reply(@, Response(500, ErrorMessage(@.op)))]
    /\ UNCHANGED <<store, counters, staged>>

(***************************************************************************)
(* The system.                                                             *)
(***************************************************************************)
Init ==
    /\ products = InitialProducts
    /\ cart = {}
    /\ nextCartId = 1
    /\ orders = {}
    /\ nextOrderId = 1
    /\ orderItems = {}
    /\ req = [r \in Slots |-> IdleReq]
    /\ nProductUpdates = 0
    /\ nRequests = 0
    /\ staged = <<>>

\* one step of a cart handler in slot r
CartStep(r) ==
    \/ GetUserCartSelect(r)
    \/ SyncProductExists(r)
    \/ SyncExistingItem(r)
    \/ SyncWrite(r)
    \/ SyncFinalSelect(r)
    \/ SaveDelete(r)
    \/ SaveInsert(r)
    \/ ClearDelete(r)

\* one step of the checkout handler in slot r
OrderStep(r) ==
    \/ OrderProductLookup(r)
    \/ OrderInsert(r)
    \/ OrderItemInsert(r)
    \/ OrderItemFails(r)
    \/ OrderClearCart(r)

\* one step of a status handler in slot r
StatusStep(r) ==
    \/ StatusSelect(r)
    \/ StatusUpdate(r)
    \/ PaymentUpdate(r)

\* a cart request arrives and its handler runs to its first await
StartCart(r, idents, carts) ==
    \/ \E ident \in idents : StartGetUserCart(r, ident)
    \/ \E ident \in idents, items \in carts : StartSyncCart(r, ident, items)
    \/ \E ident \in idents, items \in carts : StartSaveCart(r, ident, items)
    \/ \E ident \in idents : StartClearCart(r, ident)

StartStatus(r) ==
    \/ \E id \in IdInputs, status \in StatusInputs :
          StartUpdateOrderStatus(r, id, status)
    \/ \E id \in IdInputs, status \in ValidPaymentStatuses \cup {"", "refunded"} :
          StartUpdatePaymentStatus(r, id, status)

Catalog(menu) ==
    \E productId \in DOMAIN InitialProducts, updates \in menu :
        UpdateProduct(productId, updates)

(***************************************************************************)
(* SpecCart: the cart handlers, one request at a time.                     *)
(***************************************************************************)
NextCart ==
    \/ StartCart(1, Identities, CartInputs) /\ UNCHANGED nRequests
    \/ CartStep(1)
    \/ StorageFails(1)
    \/ Deliver(1)

SpecCart == Init /\ [][NextCart]_vars

(***************************************************************************)
(* SpecCheckout: checkouts, one request at a time, while two customers     *)
(* have saved carts, over a catalog whose stock flags and prices change    *)
(* between the requests.                                                   *)
(***************************************************************************)
\* the carts two customers have saved: {1: {S: 2, M: 1}} and {1: {S: 1}}
SavedCartRows ==
    { CartRow(1, 1, 1, "S", 2), CartRow(2, 1, 1, "M", 1),
      CartRow(3, 2, 1, "S", 1) }

InitCheckout ==
    /\ products = InitialProducts
    /\ cart = SavedCartRows
    /\ nextCartId = Cardinality(SavedCartRows) + 1
    /\ orders = {}
    /\ nextOrderId = 1
    /\ orderItems = {}
    /\ req = [r \in Slots |-> IdleReq]
    /\ nProductUpdates = 0
    /\ nRequests = 0
    /\ staged = <<>>

SavedCarts ==
    { Obj(<<E(<<"1">>, <<Q("S", 1)>>)>>),
      Obj(<<E(<<"1">>, <<Q("S", 2), Q("M", 1)>>)>>) }

CheckoutIdentities == {Anonymous, Owner}

CheckoutCarts ==
    { Undefined,
      Obj(<<>>),
      Obj(<<E(<<"1">>, <<Q("S", 1)>>)>>),
      Obj(<<E(<<"1">>, <<Q("S", 2)>>), E(<<"9">>, <<Q("M", 1)>>)>>),
      Obj(<<E(<<"1">>, <<Q("S", 2), Q("M", 1)>>)>>),
      Obj(<<E(<<"1">>, <<Q("S", 1)>>), E(<<"2">>, <<Q("M", 2)>>)>>),
      Obj(<<E(<<"1">>, <<Q("S", 1)>>), E(<<"0", "1">>, <<Q("S", 1)>>)>>),
      Obj(<<E(<<"2">>, <<Q("S", 1)>>), E(<<"1", "a", "b">>, <<Q("M", 2)>>)>>),
      Obj(<<E(<<"2">>, <<Q("M", 0), Q("S", -1)>>),
            E(<<"a", "b", "c">>, <<Q("S", 1)>>)>>) }

StartCheckout(r, idents, carts, guests) ==
    \E ident \in idents, items \in carts, guest \in guests,
       address \in AddressInputs :
        StartCreateOrder(r, ident, items, guest, address)

NextCheckout ==
    \/ StartCheckout(1, CheckoutIdentities, CheckoutCarts, GuestInputs)
          /\ UNCHANGED nRequests
    \/ OrderStep(1)
    \/ StorageFails(1)
    \/ Deliver(1)
    \/ Quiet /\ Catalog(StockUpdates)

SpecCheckout == InitCheckout /\ [][NextCheckout]_vars

(***************************************************************************)
(* SpecStatus: guest checkouts and status updates, one request at a time.  *)
(***************************************************************************)
NextStatus ==
    \/ /\ StartCheckout(1, {Anonymous, Owner}, SavedCarts,
                        {g \in GuestInputs : ~IncompleteGuestInfo(g)})
       /\ UNCHANGED nRequests
    \/ OrderStep(1)
    \/ StartStatus(1) /\ UNCHANGED nRequests
    \/ StatusStep(1)
    \/ StorageFails(1)
    \/ Deliver(1)

SpecStatus == Init /\ [][NextStatus]_vars

(***************************************************************************)
(* SpecOrders: a customer checks out and the orders' status and payment    *)
(* status are updated, one request at a time.                              *)
(***************************************************************************)
NextOrders ==
    \/ /\ StartCheckout(1, {Owner}, {Obj(<<E(<<"1">>, <<Q("S", 1)>>)>>)}, {None})
       /\ UNCHANGED nRequests
    \/ OrderStep(1)
    \/ StartStatus(1) /\ UNCHANGED nRequests
    \/ StatusStep(1)
    \/ StorageFails(1)
    \/ Deliver(1)

SpecOrders == Init /\ [][NextOrders]_vars

(***************************************************************************)
(* Spec: the requests of one customer's devices run concurrently, each     *)
(* database call of a handler being one step.                              *)
(***************************************************************************)
SyncedCarts ==
    { Obj(<<E(<<"1">>, <<Q("S", 1)>>)>>),
      Obj(<<E(<<"1">>, <<Q("S", 2)>>), E(<<"9">>, <<Q("M", 1)>>)>>),
      Obj(<<E(<<"1">>, <<Q("S", 3)>>)>>) }

SyncStep(r) ==
    \/ SyncProductExists(r)
    \/ SyncExistingItem(r)
    \/ SyncWrite(r)
    \/ SyncFinalSelect(r)

Next ==
    \/ \E r \in Slots, items \in SyncedCarts :
          /\ nRequests < MaxRequests
          /\ StartSyncCart(r, Owner, items)
          /\ nRequests' = nRequests + 1
    \/ \E r \in Slots : SyncStep(r)
    \/ \E r \in Slots : StorageFails(r)
    \/ \E r \in Slots : Deliver(r)

Spec == Init /\ [][Next]_vars

(***************************************************************************)
(* SpecPricing: checkouts, one at a time, while the catalog is edited:     *)
(* a price update or a delete can come between any two database calls of a *)
(* checkout.                                                               *)
(***************************************************************************)
PricedCarts ==
    { Obj(<<E(<<"1">>, <<Q("S", 2), Q("M", 1)>>)>>),
      Obj(<<E(<<"1">>, <<Q("S", 1)>>), E(<<"2">>, <<Q("M", 2)>>)>>) }

NextPricing ==
    \/ /\ StartCheckout(1, {Anonymous, Owner}, PricedCarts,
                        {g \in GuestInputs : ~IncompleteGuestInfo(g)})
       /\ UNCHANGED nRequests
    \/ OrderStep(1)
    \/ StorageFails(1)
    \/ Deliver(1)
    \/ Catalog(PriceUpdates)
    \/ \E productId \in DOMAIN InitialProducts : DeleteProduct(productId)

SpecPricing == InitCheckout /\ [][NextPricing]_vars

(***************************************************************************)
(* SpecStock: checkouts, one at a time, while the stock flags of the       *)
(* catalog are edited: an update can come between any two database calls   *)
(* of a checkout.                                                          *)
(***************************************************************************)
NextStock ==
    \/ /\ StartCheckout(1, {Anonymous, Owner}, PricedCarts,
                        {g \in GuestInputs : ~IncompleteGuestInfo(g)})
       /\ UNCHANGED nRequests
    \/ OrderStep(1)
    \/ StorageFails(1)
    \/ Deliver(1)
    \/ Catalog(StockUpdates)

SpecStock == InitCheckout /\ [][NextStock]_vars

(***************************************************************************)
(* SpecReads: a guest and two customers check out and the orders are read, *)
(* one request at a time.                                                  *)
(***************************************************************************)
\* one step of an order-read handler in slot r
ReadStep(r) ==
    \/ GetUserOrdersSelect(r)
    \/ GetUserOrdersItems(r)
    \/ GetOrderSelect(r)
    \/ GetOrderItems(r)

Readers == {Anonymous, Owner, [body |-> 2, auth |-> 1]}

StartRead(r) ==
    \/ \E ident \in Readers : StartGetUserOrders(r, ident)
    \/ \E ident \in Readers, id \in IdInputs : StartGetOrderById(r, ident, id)

NextReads ==
    \/ /\ StartCheckout(1, {Anonymous, Owner, [body |-> NoUser, auth |-> 2]},
                        {Obj(<<E(<<"1">>, <<Q("S", 2), Q("M", 1)>>)>>)},
                        {g \in GuestInputs : ~IncompleteGuestInfo(g)})
       /\ UNCHANGED nRequests
    \/ OrderStep(1)
    \/ StartRead(1) /\ UNCHANGED nRequests
    \/ ReadStep(1)
    \/ StorageFails(1)
    \/ Deliver(1)

SpecReads == Init /\ [][NextReads]_vars

(***************************************************************************)
(* SpecShop: two customers use their carts and check out, one request at   *)
(* a time.                                                                 *)
(***************************************************************************)
Shoppers == {Owner, [body |-> 2, auth |-> 1]}

ShopCarts ==
    { Obj(<<E(<<"1">>, <<Q("S", 2)>>)>>),
      Obj(<<E(<<"1">>, <<Q("S", 1), Q("M", 0)>>), E(<<"2">>, <<Q("S", -1)>>)>>) }

NextShop ==
    \/ StartCart(1, Shoppers, ShopCarts) /\ UNCHANGED nRequests
    \/ CartStep(1)
    \/ StartCheckout(1, Shoppers, ShopCarts, {None}) /\ UNCHANGED nRequests
    \/ OrderStep(1)
    \/ StorageFails(1)
    \/ Deliver(1)

SpecShop == Init /\ [][NextShop]_vars

(***************************************************************************)
(* SpecSave: one customer saves, reads, syncs and clears the cart, one     *)
(* request at a time, while the storage is available: no database call     *)
(* throws unless a constraint of the schema makes it throw.                *)
(***************************************************************************)
\* no snapshot, a string, the array [{}, {S: 2}], {1: {S: 2}, 9: {M: 1}},
\* {0: {S: 1}, 1: {S: 1}}, {1: {S: 2, M: 1}} and
\* {2: {M: 0, S: -1}, abc: {S: 1}}
SaveCarts ==
    { Undefined,
      NotAnObject,
      Arr(<< <<>>, <<Q("S", 2)>> >>),
      Obj(<<E(<<"1">>, <<Q("S", 2)>>), E(<<"9">>, <<Q("M", 1)>>)>>),
      Obj(<<E(<<"0">>, <<Q("S", 1)>>), E(<<"1">>, <<Q("S", 1)>>)>>),
      Obj(<<E(<<"1">>, <<Q("S", 2), Q("M", 1)>>)>>),
      Obj(<<E(<<"2">>, <<Q("M", 0), Q("S", -1)>>),
            E(<<"a", "b", "c">>, <<Q("S", 1)>>)>>) }

NextSave ==
    \/ StartCart(1, {Anonymous, Owner}, SaveCarts) /\ UNCHANGED nRequests
    \/ CartStep(1)
    \/ Deliver(1)

SpecSave == Init /\ [][NextSave]_vars

(***************************************************************************)
(* Properties.                                                             *)
(***************************************************************************)
Done(r, op) == req[r].op = op /\ req[r].pc = "done"

\* the largest quantity owner u has stored for (product p, size s); 0 if no line
StoredQuantity(rows, u, p, s) ==
    IF CartMatches(rows, u, p, s) = {} THEN 0
    ELSE Max({row.quantity : row \in CartMatches(rows, u, p, s)})

\* the positive quantities a snapshot submits for (product p, size s), over
\* all its keys that parseInt reads as p
Incoming(items, p, s) ==
    {items.entries[i].sizes[k].quantity :
        <<i, k>> \in {<<i, k>> \in (1..Len(items.entries)) \X (1..3) :
            /\ k <= Len(items.entries[i].sizes)
            /\ ParseInt(items.entries[i].key) = {p}
            /\ items.entries[i].sizes[k].size = s
            /\ items.entries[i].sizes[k].quantity > 0}}

Sizes == {"S", "M"}

\* C2 as claimed: after a sync, every submitted (key, size) entry of a known
\* product with quantity q_new > 0 is stored with max(q_old, q_new)
C2_MaxPerSubmittedKey ==
    \A r \in Slots :
        (Done(r, "syncCart") /\ req[r].resp.status = 200) =>
            \A i \in 1..Len(req[r].cartItems.entries) :
            \A k \in 1..Len(req[r].cartItems.entries[i].sizes) :
                LET e == req[r].cartItems.entries[i]
                    p == ParseInt(e.key)
                    qnew == e.sizes[k].quantity
                IN  (~IsNaN(p) /\ NumberOf(p) \in DOMAIN products /\ qnew > 0) =>
                        StoredQuantity(cart, req[r].userId, NumberOf(p), e.sizes[k].size)
                          = MathMax(StoredQuantity(req[r].pre.cart, req[r].userId,
                                                   NumberOf(p), e.sizes[k].size),
                                    qnew)

\* C2 amended: after a successful sync that ran alone, the largest quantity
\* stored for each (product id, size) of a known product is the maximum of the
\* largest quantity stored before and of all positive quantities the snapshot
\* submits under keys that parse to that product id; a key with no line before
\* has exactly one line after
C2_MergeMonotone ==
    \A r \in Slots :
        (Done(r, "syncCart") /\ req[r].resp.status = 200 /\ ~req[r].conc) =>
            \A p \in DOMAIN products, s \in Sizes :
                LET in == Incoming(req[r].cartItems, p, s)
                    old == StoredQuantity(req[r].pre.cart, req[r].userId, p, s)
                IN  in # {} =>
                      /\ StoredQuantity(cart, req[r].userId, p, s)
                            = Max(in \cup {old})
                      /\ old = 0 =>
                            Cardinality(CartMatches(cart, req[r].userId, p, s)) = 1

\* the spec's scenario: stored {1: {S: 1}}, synced {1: {S: 2}, 9: {M: 1}},
\* reconciled {1: {S: 2}}
C2_Witness ==
    /\ Done(1, "syncCart") /\ req[1].resp.status = 200
    /\ req[1].cartItems = Obj(<<E(<<"1">>, <<Q("S", 2)>>), E(<<"9">>, <<Q("M", 1)>>)>>)
    /\ {<<row.productId, row.size, row.quantity>> :
            row \in CartOf(req[1].pre.cart, req[1].userId)} = {<<1, "S", 1>>}
    /\ {<<row.productId, row.size, row.quantity>> :
            row \in CartOf(cart, req[1].userId)} = {<<1, "S", 2>>}

\* C3: a sync sent again right after it succeeded leaves the owner's lines
\* as the first one left them
C3_SyncIdempotent ==
    \A r \in Slots :
        (Done(r, "syncCart") /\ req[r].resp.status = 200 /\ req[r].retry) =>
            CartOf(cart, req[r].userId) = CartOf(req[r].pre.cart, req[r].userId)

\* C5: at most one cart line per (owner, product, size)
C5_CartLineUnique ==
    \A row1, row2 \in cart :
        (/\ row1.userId = row2.userId
         /\ row1.productId = row2.productId
         /\ row1.size = row2.size) => row1 = row2

(***************************************************************************)
(* Checkout properties.                                                    *)
(***************************************************************************)
\* no checkout is between its order insert and the end of its line inserts
LinesSettled == \A r \in Slots : req[r].pc # "order_items"

\* C1: once the line inserts of every checkout have ended (also when one of
\* them threw), each order has all the lines staged for it, at least one,
\* and each line has its order
C1_OrderAtomicity ==
    LinesSettled =>
        /\ \A o \in orders :
              /\ staged[o.id] >= 1
              /\ Cardinality(ItemsOf(orderItems, o.id)) = staged[o.id]
        /\ \A it \in orderItems : OrdersWithId(orders, it.orderId) # {}

\* the checkout passed the identity, cart and address preconditions
PassedPreconditions(q) ==
    /\ ~(q.userId = NoUser /\ q.guestInfo = None)
    /\ ~IncompleteGuestInfo(q.guestInfo)
    /\ ~InvalidCartItems(q.cartItems)
    /\ q.shippingAddress # None

\* the entries of a checkout cart that name a product of the catalog whose
\* stock flag is false
OutOfStockEntries(q) ==
    {i \in 1..Len(q.cartItems.entries) :
        \E p \in ParseInt(q.cartItems.entries[i].key) :
            p \in DOMAIN products /\ ~products[p].inStock}

NothingPersisted(q) ==
    /\ orders = q.pre.orders
    /\ orderItems = q.pre.orderItems

\* C6: a checkout whose cart names an out-of-stock product persists no order
\* and no order line, wherever the product stands in the cart; if it passed
\* the preconditions and no database call threw, the response is the 400
\* "out of stock" naming the first such product
C6_StockHardStop ==
    \A r \in Slots :
        (Done(r, "createOrder") /\ OutOfStockEntries(req[r]) # {}) =>
            /\ NothingPersisted(req[r])
            /\ req[r].resp.status # 201
            /\ (PassedPreconditions(req[r]) /\ req[r].resp.status # 500) =>
                  LET i == Min(OutOfStockEntries(req[r]))
                      p == NumberOf(ParseInt(req[r].cartItems.entries[i].key))
                  IN  /\ req[r].resp.status = 400
                      /\ req[r].resp.message = "is out of stock"
                      /\ req[r].resp.product = products[p].name

\* the out-of-stock product stands last, after an entry that is valid and in
\* stock, and the checkout is answered "out of stock"
C6_Witness ==
    /\ Done(1, "createOrder")
    /\ req[1].cartItems = Obj(<<E(<<"1">>, <<Q("S", 1)>>), E(<<"2">>, <<Q("M", 2)>>)>>)
    /\ products[1].inStock /\ ~products[2].inStock
    /\ req[1].resp.message = "is out of stock"
    /\ req[1].resp.product = "Kente"
    /\ orders = {}

\* C8: every order has an owner or guest info, and not both
C8_GuestOwnerExclusive ==
    \A o \in orders : (o.userId # NoUser) <=> (o.guestInfo = None)

ValidationMessages ==
    { "Guest information (name, email, phone) is required for guest checkout",
      "Guest name, email, and phone are required",
      "Cart items are required",
      "Shipping address is required" }

ValidationFailed(resp) == resp.status = 400 /\ resp.message \in ValidationMessages

\* guest info is sent and its name, its email or its phone is empty
MissingGuestField(g) ==
    g # None /\ \E f \in {"name", "email", "phone"} : g[1][f] = ""

\* C9: a checkout with neither owner nor guest info, or with guest info that
\* lacks a name, an email or a phone (with or without an owner), is answered
\* with a validation failure and changes nothing
C9_IdentityPrecondition ==
    \A r \in Slots :
        (/\ Done(r, "createOrder")
         /\ \/ req[r].userId = NoUser /\ req[r].guestInfo = None
            \/ MissingGuestField(req[r].guestInfo)) =>
            /\ ValidationFailed(req[r].resp)
            /\ NothingPersisted(req[r])
            /\ cart = req[r].pre.cart

\* an identified owner sends guest info without a phone and is refused
C9_Witness ==
    /\ Done(1, "createOrder")
    /\ req[1].userId # NoUser
    /\ req[1].guestInfo # None /\ req[1].guestInfo[1].phone = ""
    /\ req[1].resp.message = "Guest name, email, and phone are required"

\* C10: after a successful checkout the owner's cart is empty and every
\* other cart is as it was; a checkout without owner leaves all carts alone
C10_PostCheckoutClear ==
    \A r \in Slots :
        (Done(r, "createOrder") /\ req[r].resp.status = 201) =>
            /\ req[r].userId # NoUser => CartOf(cart, req[r].userId) = {}
            /\ \A u \in Users \ {req[r].userId} :
                  CartOf(cart, u) = CartOf(req[r].pre.cart, u)

\* an owner with a stored cart has checked out
C10_Witness ==
    /\ Done(1, "createOrder") /\ req[1].resp.status = 201
    /\ req[1].userId = 1
    /\ CartOf(req[1].pre.cart, 1) # {}
    /\ CartOf(cart, 1) = {}
    /\ CartOf(cart, 2) # {}

\* a guest has checked out while customers have stored carts
C10_GuestWitness ==
    /\ Done(1, "createOrder") /\ req[1].resp.status = 201
    /\ req[1].userId = NoUser
    /\ cart # {}

(***************************************************************************)
(* Order status.                                                           *)
(***************************************************************************)
StatusTransitions ==
    { <<"pending", "processing">>, <<"pending", "cancelled">>,
      <<"processing", "shipped">>, <<"processing", "cancelled">>,
      <<"shipped", "delivered">> }

\* C7: an order's status changes only along pending -> {processing,
\* cancelled}, processing -> {shipped, cancelled}, shipped -> delivered
C7_StatusTransitions ==
    [][\A o \in orders : \A n \in OrdersWithId(orders', o.id) :
          n.status # o.status => <<o.status, n.status>> \in StatusTransitions]_vars


(***************************************************************************)
(* Concurrent syncs.                                                       *)
(***************************************************************************)
\* a and b are two successful syncs of one owner, b sent while a was in
\* flight and nothing else sent since a
ConcurrentSyncs(a, b) ==
    /\ Done(a, "syncCart") /\ req[a].resp.status = 200
    /\ Done(b, "syncCart") /\ req[b].resp.status = 200
    /\ req[a].userId = req[b].userId
    /\ ~req[a].conc /\ req[b].conc
    /\ req[b].seq = req[a].seq + 1

\* C4: after two concurrent syncs of one owner, each (product, size) either
\* of them submitted has exactly one line, whose quantity is the maximum of
\* the quantity stored before and of both submitted quantities
C4_ConcurrentSyncSerial ==
    \A a, b \in Slots :
        ConcurrentSyncs(a, b) =>
            \A p \in DOMAIN products, s \in Sizes :
                LET in == Incoming(req[a].cartItems, p, s)
                            \cup Incoming(req[b].cartItems, p, s)
                    old == StoredQuantity(req[a].pre.cart, req[a].userId, p, s)
                    lines == CartMatches(cart, req[a].userId, p, s)
                IN  in # {} =>
                      /\ Cardinality(lines) = 1
                      /\ \A row \in lines : row.quantity = Max(in \cup {old})


(***************************************************************************)
(* Prices.                                                                 *)
(***************************************************************************)
\* the checkout in slot r is assembling or persisting its order
Assembling(r) == req[r].pc \in {"order_product", "order_insert", "order_items"}

\* C11: a line staged by the catalog lookup carries the price the catalog
\* has at that lookup; a staged line is not changed afterwards; an inserted
\* order line carries the price of its staged line; and no later step, a
\* price update or a product delete included, changes or removes a
\* committed order line or changes an order's total
C11_PriceFrozen ==
    [][/\ \A it \in orderItems : it \in orderItems'
       /\ \A o \in orders : \E n \in orders' :
             n.id = o.id /\ n.totalAmount = o.totalAmount
       /\ \A r \in Slots :
             Assembling(r) =>
                LET old == req[r].orderItemsData
                    new == req'[r].orderItemsData
                IN  /\ Len(new) >= Len(old)
                    /\ SubSeq(new, 1, Len(old)) = old
                    /\ \A k \in (Len(old) + 1)..Len(new) :
                          new[k].price = products[new[k].productId].price
       /\ \A it \in orderItems' \ orderItems :
             \E r \in Slots :
                /\ req[r].pc = "order_items"
                /\ it.orderId = req[r].newOrder[1].id
                /\ it.price = req[r].orderItemsData[it.line].price]_vars

\* an order of two lines at 50.00 stands unchanged after the product's
\* price went to 60.00
C11_Witness ==
    /\ products[1].price = 6000
    /\ \E o \in orders :
          /\ o.totalAmount = 15000
          /\ {<<it.size, it.quantity, it.price>> : it \in ItemsOf(orderItems, o.id)}
                = {<<"S", 2, 5000>>, <<"M", 1, 5000>>}
    /\ Quiet

(***************************************************************************)
(* Tolerance of unknown products.                                          *)
(***************************************************************************)
\* the key is a decimal numeral: one digit or more and nothing else
IsNumericKey(key) == Len(key) >= 1 /\ \A i \in 1..Len(key) : IsDigit(key[i])

\* the positive quantities a snapshot submits for (product p, size s) under
\* numeric keys
IncomingNumeric(items, p, s) ==
    {items.entries[i].sizes[k].quantity :
        <<i, k>> \in {<<i, k>> \in (1..Len(items.entries)) \X (1..3) :
            /\ k <= Len(items.entries[i].sizes)
            /\ IsNumericKey(items.entries[i].key)
            /\ ParseInt(items.entries[i].key) = {p}
            /\ items.entries[i].sizes[k].size = s
            /\ items.entries[i].sizes[k].quantity > 0}}

\* C12: a sync of an identified owner with a snapshot object, when no
\* database call throws, answers 200; what is stored afterwards is the cart
\* of before merged with the entries under numeric keys of catalog products
\* and nothing else: an entry under a non-numeric key or under an id absent
\* from the catalog stores nothing
C12_UnknownProductSkipped ==
    \A r \in Slots :
        (/\ Done(r, "syncCart") /\ ~req[r].conc
         /\ req[r].userId # NoUser
         /\ ~InvalidCartItems(req[r].cartItems)
         /\ req[r].resp.status # 500) =>
            /\ req[r].resp.status = 200
            /\ \A row \in cart : row.productId \in DOMAIN products
            /\ \A p \in DOMAIN products, s \in Sizes :
                  StoredQuantity(cart, req[r].userId, p, s)
                    = Max(IncomingNumeric(req[r].cartItems, p, s)
                            \cup {StoredQuantity(req[r].pre.cart, req[r].userId, p, s)})

(***************************************************************************)
(* Commutativity of the merge.                                             *)
(***************************************************************************)
\* the lines of owner u without their row ids: (product, size, quantity)
\* and how many rows hold it
LinesOf(rows, u) ==
    {<<row.productId, row.size, row.quantity,
       Cardinality({o \in CartOf(rows, u) :
                      /\ o.productId = row.productId
                      /\ o.size = row.size
                      /\ o.quantity = row.quantity})>> : row \in CartOf(rows, u)}

CommutedCarts ==
    { Obj(<<E(<<"1">>, <<Q("S", 1)>>)>>),
      Obj(<<E(<<"1">>, <<Q("S", 2)>>), E(<<"9">>, <<Q("M", 1)>>)>>),
      Obj(<<E(<<"1">>, <<Q("S", 2), Q("M", 1)>>)>>) }

\* the sets of lines that sync(s1) followed by sync(s2) can leave from rows
SyncThenSync(rows, u, s1, s2) ==
    {LinesOf(b, u) :
        b \in UNION {SyncOutcomes(a, u, SyncMerges(s2)) :
                        a \in SyncOutcomes(rows, u, SyncMerges(s1))}}

\* the loop function agrees with the handler: what a successful sync that
\* ran alone left is one of the outcomes of SyncOutcomes
SyncOutcomesAgree ==
    \A r \in Slots :
        (Done(r, "syncCart") /\ req[r].resp.status = 200 /\ ~req[r].conc) =>
            LinesOf(cart, req[r].userId) \in
                {LinesOf(a, req[r].userId) :
                    a \in SyncOutcomes(req[r].pre.cart, req[r].userId,
                                       SyncMerges(req[r].cartItems))}

\* C13: from every stored cart, for any two snapshots, sync(S1) followed by
\* sync(S2) leaves the same lines as sync(S2) followed by sync(S1)
C13_SyncCommutes ==
    \A u \in Users, s1, s2 \in CommutedCarts :
        \A x \in SyncThenSync(cart, u, s1, s2), y \in SyncThenSync(cart, u, s2, s1) :
            x = y

(***************************************************************************)
(* Save.                                                                   *)
(***************************************************************************)
\* the entries of a snapshot with quantity > 0, as getUserCart would show
\* them: product id (what parseInt reads of the key), size, quantity
PositiveEntries(items) ==
    {[productId |-> NumToString(NumberOf(ParseInt(items.entries[i].key))),
      size |-> SizeLabel(items.entries[i].sizes[k].size),
      quantity |-> items.entries[i].sizes[k].quantity] :
        <<i, k>> \in {<<i, k>> \in (1..Len(items.entries)) \X (1..3) :
            /\ k <= Len(items.entries[i].sizes)
            /\ ~IsNaN(ParseInt(items.entries[i].key))
            /\ items.entries[i].sizes[k].quantity > 0}}

\* C14: after a successful saveCart(owner, S), what getUserCart reads back
\* for the owner is exactly the entries of S with quantity > 0
C14_SaveOverwrites ==
    \A r \in Slots :
        (Done(r, "saveCart") /\ req[r].resp.status = 200 /\ ~req[r].conc) =>
            SnapshotsOf(CartOf(cart, req[r].userId))
                = {PositiveEntries(req[r].cartItems)}

(***************************************************************************)
(* Owners and quantities.                                                  *)
(***************************************************************************)
\* C15: whatever a cart request or a checkout of owner A has done so far,
\* finished or not, failed or not, the cart lines of every other owner are
\* the rows they were when the request came in
C15_NoCrossOwner ==
    \A r \in Slots :
        req[r].pc # "idle" =>
            \A v \in Users \ {req[r].userId} :
                CartOf(cart, v) = CartOf(req[r].pre.cart, v)

\* owner 1's checkout has cleared owner 1's lines and owner 2's are there
C15_Witness ==
    /\ Done(1, "createOrder") /\ req[1].resp.status = 201
    /\ req[1].userId = 1
    /\ CartOf(req[1].pre.cart, 1) # {} /\ CartOf(cart, 1) = {}
    /\ CartOf(cart, 2) # {}

\* C16: every stored cart line and every order line, staged or stored, has
\* quantity >= 1
C16_PositiveQuantity ==
    /\ \A row \in cart : row.quantity >= 1
    /\ \A it \in orderItems : it.quantity >= 1
    /\ \A r \in Slots : \A k \in 1..Len(req[r].orderItemsData) :
          req[r].orderItemsData[k].quantity >= 1

\* a save of {1: {S: 1, M: 0}, 2: {S: -1}} was answered 200 and stored the
\* line (1, S, 1) only
C16_Witness ==
    /\ Done(1, "saveCart") /\ req[1].resp.status = 200
    /\ req[1].cartItems =
          Obj(<<E(<<"1">>, <<Q("S", 1), Q("M", 0)>>), E(<<"2">>, <<Q("S", -1)>>)>>)
    /\ {<<row.productId, row.size, row.quantity>> :
            row \in CartOf(cart, req[1].userId)} = {<<1, "S", 1>>}

(***************************************************************************)
(* Order pricing.                                                          *)
(***************************************************************************)
\* the (product, size, quantity) entries of a checkout cart with quantity
\* > 0 under a key that names a product of the catalog
PurchasableEntries(items) ==
    {<<NumberOf(ParseInt(items.entries[i].key)),
       items.entries[i].sizes[k].size,
       items.entries[i].sizes[k].quantity>> :
        <<i, k>> \in {<<i, k>> \in (1..Len(items.entries)) \X (1..3) :
            /\ k <= Len(items.entries[i].sizes)
            /\ ParseInt(items.entries[i].key) \cap DOMAIN products # {}
            /\ items.entries[i].sizes[k].quantity > 0}}

\* sum of price x quantity over a set of order lines
RECURSIVE LinesSum(_)
LinesSum(lines) ==
    IF lines = {} THEN 0
    ELSE LET it == CHOOSE x \in lines : TRUE
         IN  it.price * it.quantity + LinesSum(lines \ {it})

\* the positions (entry, size) of a checkout cart with quantity > 0 under a
\* key that names a product of the catalog
PurchasablePositions(items) ==
    {<<i, k>> \in (1..Len(items.entries)) \X (1..3) :
        /\ k <= Len(items.entries[i].sizes)
        /\ ParseInt(items.entries[i].key) \cap DOMAIN products # {}
        /\ items.entries[i].sizes[k].quantity > 0}

\* C17: a checkout that inserted its order staged one line per entry
\* (key, size) with quantity > 0 of a catalog product of its cart, each at
\* the product's price, and the order's total is the sum of price x quantity
\* over the staged lines; when the checkout is answered 201 the stored lines
\* of the order are the staged ones
C17_OrderPricing ==
    \A r \in Slots :
        (req[r].op = "createOrder" /\ req[r].newOrder # None) =>
            LET id == req[r].newOrder[1].id
                lines == req[r].orderItemsData
                cartItems == req[r].cartItems
            IN  /\ Len(lines) = Cardinality(PurchasablePositions(cartItems))
                /\ {<<lines[k].productId, lines[k].size, lines[k].quantity>> :
                        k \in 1..Len(lines)} = PurchasableEntries(cartItems)
                /\ \A k \in 1..Len(lines) :
                      lines[k].price = products[lines[k].productId].price
                /\ \A o \in OrdersWithId(orders, id) :
                      o.totalAmount = LinesSum({OrderItemRow(req[r], k) :
                                                   k \in 1..Len(lines)})
                /\ req[r].resp.status = 201 =>
                      ItemsOf(orderItems, id) =
                          {OrderItemRow(req[r], k) : k \in 1..Len(lines)}

\* the spec's scenario: a guest cart {1: {S: 2, M: 1}} with product 1 at
\* 50.00 gives an order of total 150.00 with lines S x 2 and M x 1
C17_Witness ==
    /\ Done(1, "createOrder") /\ req[1].resp.status = 201
    /\ req[1].userId = NoUser
    /\ req[1].cartItems = Obj(<<E(<<"1">>, <<Q("S", 2), Q("M", 1)>>)>>)
    /\ \E o \in orders :
          /\ o.userId = NoUser /\ o.guestInfo # None
          /\ o.totalAmount = 15000
          /\ {<<it.size, it.quantity, it.price>> : it \in ItemsOf(orderItems, o.id)}
                = {<<"S", 2, 5000>>, <<"M", 1, 5000>>}

(***************************************************************************)
(* Empty carts.                                                            *)
(***************************************************************************)
\* C18: a checkout that passed the preconditions and whose cart holds no
\* entry with quantity > 0 of a catalog product persists nothing and leaves
\* the carts alone; unless a product of the cart is out of stock or a
\* database call threw, it is answered 400 "No valid items in cart"; and no
\* order row is ever inserted with zero staged lines
C18_EmptyCartRejected ==
    /\ \A o \in orders : staged[o.id] >= 1
    /\ \A r \in Slots :
          (/\ Done(r, "createOrder")
           /\ PassedPreconditions(req[r])
           /\ PurchasableEntries(req[r].cartItems) = {}) =>
              /\ NothingPersisted(req[r])
              /\ cart = req[r].pre.cart
              /\ (OutOfStockEntries(req[r]) = {} /\ req[r].resp.status # 500) =>
                    /\ req[r].resp.status = 400
                    /\ req[r].resp.message = "No valid items in cart"

\* a cart of a non-numeric key and of non-positive quantities of a product
\* in stock is answered "No valid items in cart"
C18_Witness ==
    /\ Done(1, "createOrder")
    /\ req[1].cartItems = Obj(<<E(<<"2">>, <<Q("M", 0), Q("S", -1)>>),
                               E(<<"a", "b", "c">>, <<Q("S", 1)>>)>>)
    /\ products[2].inStock
    /\ req[1].resp.status = 400
    /\ req[1].resp.message = "No valid items in cart"
    /\ orders = {}

(***************************************************************************)
(* Order of the checkout preconditions.                                    *)
(***************************************************************************)
\* C19: the response of a checkout is that of the first precondition that
\* fails, in the order identity (owner or guest info, then complete guest
\* info), cart snapshot, shipping address; a failing precondition is
\* answered 400 with nothing looked up or written; and a precondition's
\* message is the response of the request's first step only, never of a step
\* that follows a database call
C19_PreconditionOrder ==
    /\ [](\A r \in Slots :
            Done(r, "createOrder") =>
               LET q == req[r]
                   noIdentity == q.userId = NoUser /\ q.guestInfo = None
                   badGuest == MissingGuestField(q.guestInfo)
                   badCart == InvalidCartItems(q.cartItems)
                   noAddress == q.shippingAddress = None
               IN  /\ noIdentity => q.resp.message =
                         "Guest information (name, email, phone) is required for guest checkout"
                   /\ (~noIdentity /\ badGuest) => q.resp.message =
                         "Guest name, email, and phone are required"
                   /\ (~noIdentity /\ ~badGuest /\ badCart) => q.resp.message =
                         "Cart items are required"
                   /\ (~noIdentity /\ ~badGuest /\ ~badCart /\ noAddress) =>
                         q.resp.message = "Shipping address is required"
                   /\ (noIdentity \/ badGuest \/ badCart \/ noAddress) =>
                         /\ q.resp.status = 400
                         /\ NothingPersisted(q)
                         /\ cart = q.pre.cart
                   /\ q.resp.message \in ValidationMessages =>
                         (noIdentity \/ badGuest \/ badCart \/ noAddress))
    /\ [][\A r \in Slots :
            (/\ req'[r] # req[r]
             /\ req'[r].op = "createOrder"
             /\ req'[r].resp.message \in ValidationMessages) => ~InFlight(r)]_vars

\* a guest with complete info sends neither cart nor address: the cart is
\* what the response names
C19_Witness ==
    /\ Done(1, "createOrder")
    /\ req[1].userId = NoUser /\ req[1].guestInfo # None
    /\ ~MissingGuestField(req[1].guestInfo)
    /\ req[1].cartItems = Undefined
    /\ req[1].shippingAddress = None
    /\ req[1].resp.message = "Cart items are required"

\* C20: a checkout with a valid identity and an empty mapping as cart is
\* answered by the cart precondition, with or without a shipping address
C20_EmptyMappingRejected ==
    \A r \in Slots :
        (/\ Done(r, "createOrder")
         /\ ~(req[r].userId = NoUser /\ req[r].guestInfo = None)
         /\ ~MissingGuestField(req[r].guestInfo)
         /\ req[r].cartItems = Obj(<<>>)) =>
            /\ req[r].resp.status = 400
            /\ req[r].resp.message = "Cart items are required"

(***************************************************************************)
(* The cart clear after the commit.                                        *)
(***************************************************************************)
\* the order and every line of checkout q were inserted
Committed(q) ==
    /\ q.op = "createOrder"
    /\ q.newOrder # None
    /\ q.pending = {}
    /\ ~q.failed

\* the delete of the owner's cart threw after the order was committed
ClearFailed(q) ==
    /\ Committed(q)
    /\ q.pc = "done"
    /\ q.userId # NoUser
    /\ q.resp.status = 500

\* C21: when the clear of the owner's cart fails after the order and its
\* lines were committed, the order and all its lines remain persisted, and
\* the orders and lines that were there before are as they were
C21_ClearFailureKeepsOrder ==
    \A r \in Slots :
        ClearFailed(req[r]) =>
            /\ orders = req[r].pre.orders \cup {req[r].newOrder[1]}
            /\ orderItems = req[r].pre.orderItems \cup
                  {OrderItemRow(req[r], i) : i \in 1..Len(req[r].orderItemsData)}
            /\ Len(req[r].orderItemsData) >= 1

\* owner 1 checked out two lines and the clear of the cart threw: the cart
\* is still stored, and so are the order and its two lines
C21_Witness ==
    /\ ClearFailed(req[1])
    /\ req[1].userId = 1
    /\ Len(req[1].orderItemsData) = 2
    /\ CartOf(cart, 1) = CartOf(SavedCartRows, 1)
    /\ Cardinality(orderItems) = 2
    /\ Cardinality(orders) = 1

\* C22: a checkout whose order and lines were committed answers 201 with
\* the created order and its lines, also when the cart clear fails
C22_CommittedOrderReturned ==
    \A r \in Slots :
        (Committed(req[r]) /\ req[r].pc = "done") =>
            /\ req[r].resp.status = 201
            /\ req[r].resp.order =
                  Some([row |-> req[r].newOrder[1],
                        items |-> ItemsOf(orderItems, req[r].newOrder[1].id)])

(***************************************************************************)
(* Leniency of save.                                                       *)
(***************************************************************************)
\* the (product, size, quantity) entries of a snapshot with a quantity > 0
\* whose key parseInt reads as a product of the catalog, or as a number
\* that is no product of the catalog
EntriesOf(items, known) ==
    {<<p, items.entries[i].sizes[k].size, items.entries[i].sizes[k].quantity>> :
        <<i, k, p>> \in {<<i, k, p>> \in (1..Len(items.entries)) \X (1..3) \X (0..9) :
            /\ k <= Len(items.entries[i].sizes)
            /\ ParseInt(items.entries[i].key) = {p}
            /\ (p \in DOMAIN products) = known
            /\ items.entries[i].sizes[k].quantity > 0}}

\* C23: a save whose snapshot names a product id with no catalog row is not
\* an error: it answers 200, the owner's cart holds every valid entry of the
\* snapshot and no line of the unknown product
C23_SaveUnknownProductDropped ==
    \A r \in Slots :
        (/\ Done(r, "saveCart")
         /\ req[r].userId # NoUser
         /\ ~InvalidCartItems(req[r].cartItems)
         /\ EntriesOf(req[r].cartItems, FALSE) # {}) =>
            /\ req[r].resp.status = 200
            /\ {<<row.productId, row.size, row.quantity>> :
                    row \in CartOf(cart, req[r].userId)}
                  = EntriesOf(req[r].cartItems, TRUE)

(***************************************************************************)
(* The snapshot a sync returns.                                            *)
(***************************************************************************)
\* the lines of owner u as the entries of a snapshot
SnapshotLines(rows, u) ==
    {[productId |-> NumToString(row.productId), size |-> SizeLabel(row.size),
      quantity |-> row.quantity] : row \in CartOf(rows, u)}

\* the lines owner u had stored that snapshot items does not name
Unnamed(rows, u, items) ==
    {row \in CartOf(rows, u) : Incoming(items, row.productId, row.size) = {}}

\* C25: the snapshot a successful sync returns is the owner's stored cart of
\* that moment, line for line, it is what a get of the cart returns, and it
\* holds the stored lines the submitted snapshot did not name
C25_SyncReturnsStore ==
    \A r \in Slots :
        (Done(r, "syncCart") /\ req[r].resp.status = 200) =>
            /\ req[r].resp.cartItems = SnapshotLines(cart, req[r].userId)
            /\ SnapshotsOf(CartOf(cart, req[r].userId)) = {req[r].resp.cartItems}
            /\ SnapshotLines(Unnamed(req[r].pre.cart, req[r].userId,
                                     req[r].cartItems), req[r].userId)
                  \subseteq req[r].resp.cartItems

(***************************************************************************)
(* Refusals of the cart operations.                                        *)
(***************************************************************************)
CartOps == {"getUserCart", "syncCart", "saveCart", "clearCart"}

\* the snapshot is missing, or it is no mapping from product ids to sizes
MalformedSnapshot(items) == items.type # "object" \/ items.array

\* C26: a cart operation with no resolved owner answers 401 "Authentication
\* required" and leaves the cart store as it was; a sync or a save with a
\* missing or malformed snapshot answers 400 "Valid cart data required" and
\* no row is deleted or written
C26_CartRefusals ==
    \A r \in Slots :
        (req[r].op \in CartOps /\ req[r].pc = "done") =>
            /\ req[r].userId = NoUser =>
                  /\ req[r].resp.status = 401
                  /\ req[r].resp.message = "Authentication required"
                  /\ cart = req[r].pre.cart
            /\ (/\ req[r].userId # NoUser
                /\ req[r].op \in {"syncCart", "saveCart"}
                /\ MalformedSnapshot(req[r].cartItems)) =>
                  /\ req[r].resp.status = 400
                  /\ req[r].resp.message = "Valid cart data required"
                  /\ cart = req[r].pre.cart

(***************************************************************************)
(* Refusals of the status updates.                                         *)
(***************************************************************************)
StatusOps == {"updateOrderStatus", "updatePaymentStatus"}

\* the values the handler of op accepts as the new status
AcceptedBy(op) ==
    IF op = "updateOrderStatus" THEN ValidStatuses ELSE ValidPaymentStatuses

\* C24: a status or payment-status update that names an order id with no
\* row is answered 404 "Order not found" (500 when the database call throws)
\* and changes no order; one whose target value is outside the accepted
\* values is answered 400 and changes no order
C24_StatusRefusals ==
    \A r \in Slots :
        (req[r].op \in StatusOps /\ req[r].pc = "done") =>
            /\ (/\ req[r].status \in AcceptedBy(req[r].op)
                /\ req[r].resp.message # "Invalid order ID"
                /\ OrdersWithId(req[r].pre.orders, req[r].id) = {}) =>
                  /\ req[r].resp.status \in {404, 500}
                  /\ req[r].resp.status = 404 =>
                        req[r].resp.message = "Order not found"
                  /\ orders = req[r].pre.orders
            /\ req[r].status \notin AcceptedBy(req[r].op) =>
                  /\ req[r].resp.status = 400
                  /\ orders = req[r].pre.orders

\* while order 1 exists, a status update of order 2 was answered 404
C24_Witness ==
    /\ Done(1, "updateOrderStatus")
    /\ req[1].id = 2
    /\ req[1].status = "shipped"
    /\ req[1].resp.status = 404
    /\ \E o \in orders : o.id = 1 /\ o.status = "pending"

\* while order 1 exists, a payment update of order 2 was answered 404, and
\* one to "refunded" was answered 400
C24_PaymentWitness ==
    /\ Done(1, "updatePaymentStatus")
    /\ orders # {}
    /\ \/ req[1].id = 2 /\ req[1].resp.status = 404
       \/ req[1].id = 1 /\ req[1].status = "refunded" /\ req[1].resp.status = 400

(***************************************************************************)
(* Skipped products of a checkout.                                         *)
(***************************************************************************)
\* the key of entry i is non-numeric or names no product of the catalog
SkippedEntry(items, i) ==
    \/ ~IsNumericKey(items.entries[i].key)
    \/ ParseInt(items.entries[i].key) \cap DOMAIN products = {}

\* the positions (entry, size) with quantity > 0 of the entries that are
\* not skipped
ValidPositions(items) ==
    {<<i, k>> \in (1..Len(items.entries)) \X (1..3) :
        /\ k <= Len(items.entries[i].sizes)
        /\ ~SkippedEntry(items, i)
        /\ items.entries[i].sizes[k].quantity > 0}

\* the order line of position <<i, k>> of a cart, at the catalog price
LineOf(items, pos) ==
    LET p == NumberOf(ParseInt(items.entries[pos[1]].key))
    IN  [at |-> pos, productId |-> p,
         size |-> items.entries[pos[1]].sizes[pos[2]].size,
         quantity |-> items.entries[pos[1]].sizes[pos[2]].quantity,
         price |-> products[p].price]

\* C27: a checkout whose cart has an entry under a non-numeric key or under
\* an id absent from the catalog skips that entry without error: when the
\* other entries give a line and are in stock it answers 201, the lines of
\* the order are those of the other entries and its total is their sum
C27_CheckoutSkipsInvalid ==
    \A r \in Slots :
        LET q == req[r]
            valid == {LineOf(q.cartItems, pos) : pos \in ValidPositions(q.cartItems)}
        IN  (/\ Done(r, "createOrder")
             /\ PassedPreconditions(q)
             /\ \E i \in 1..Len(q.cartItems.entries) : SkippedEntry(q.cartItems, i)
             /\ valid # {}
             /\ OutOfStockEntries(q) = {}
             /\ q.resp.status # 500) =>
                /\ q.resp.status = 201
                /\ {<<it.productId, it.size, it.quantity, it.price>> :
                        it \in ItemsOf(orderItems, q.newOrder[1].id)}
                     = {<<l.productId, l.size, l.quantity, l.price>> : l \in valid}
                /\ Cardinality(ItemsOf(orderItems, q.newOrder[1].id))
                     = Cardinality(valid)
                /\ q.newOrder[1].totalAmount = LinesSum(valid)

C29_StockAtLookup ==
    [][\A r \in Slots :
          (/\ req[r].pc = "order_product"
           /\ Len(req'[r].orderItemsData) > Len(req[r].orderItemsData)) =>
              \A k \in (Len(req[r].orderItemsData) + 1)..Len(req'[r].orderItemsData) :
                  /\ req'[r].orderItemsData[k].productId \in DOMAIN products
                  /\ products[req'[r].orderItemsData[k].productId].inStock
                  /\ products' = products]_vars

\* the race: a guest's order and its lines are committed and answered 201
\* while the stock flag of a product of the order is false; the flag was
\* set to false after the lookup of the product
C29_Witness ==
    /\ Done(1, "createOrder") /\ req[1].resp.status = 201
    /\ req[1].userId = NoUser
    /\ nProductUpdates >= 1
    /\ \E o \in orders :
          /\ o.id = req[1].newOrder[1].id
          /\ \E it \in ItemsOf(orderItems, o.id) : ~products[it.productId].inStock

\* the flag is already false when the order row is about to be inserted
C29_CommitWitness ==
    /\ req[1].op = "createOrder"
    /\ req[1].pc = "order_insert"
    /\ \E k \in 1..Len(req[1].orderItemsData) :
          ~products[req[1].orderItemsData[k].productId].inStock

(***************************************************************************)
(* Business-rule failures of a checkout.                                   *)
(***************************************************************************)
BusinessFailures ==
    ValidationMessages \cup {"is out of stock", "No valid items in cart"}

\* C30: a checkout answered with a validation failure, out of stock or
\* empty cart has left the store as it was: no order, no order line, every
\* cart row and both serial counters as before the call
C30_FailureLeavesStore ==
    \A r \in Slots :
        (Done(r, "createOrder") /\ req[r].resp.status = 400) =>
            /\ req[r].resp.message \in BusinessFailures
            /\ NothingPersisted(req[r])
            /\ cart = req[r].pre.cart
            /\ req[r].newOrder = None
            /\ nextOrderId = Cardinality(orders) + 1

\* customer 1, who has a stored cart, sent a cart of nothing purchasable:
\* empty cart, and the stored cart is still there
C30_Witness ==
    /\ Done(1, "createOrder")
    /\ req[1].userId = 1
    /\ req[1].resp.message = "No valid items in cart"
    /\ CartOf(cart, 1) = CartOf(SavedCartRows, 1)
    /\ orders = {} /\ orderItems = {}

(***************************************************************************)
(* The owner a request acts on.                                            *)
(***************************************************************************)
\* C31: a request authenticated as owner A acts on A only: it leaves the
\* cart of every other owner as it was, the cart it returns is A's, and the
\* order it creates is A's
C31_ActsOnAuthenticatedOwner ==
    \A r \in Slots :
        (req[r].pc = "done" /\ req[r].auth # NoUser) =>
            /\ \A u \in Users \ {req[r].auth} :
                  CartOf(cart, u) = CartOf(req[r].pre.cart, u)
            /\ (req[r].op \in {"getUserCart", "syncCart"} /\ req[r].resp.status = 200) =>
                  req[r].resp.cartItems \in SnapshotsOf(CartOf(cart, req[r].auth))
            /\ (req[r].op = "createOrder" /\ req[r].newOrder # None) =>
                  req[r].newOrder[1].userId = req[r].auth

(***************************************************************************)
(* A save that fails.                                                      *)
(***************************************************************************)
\* C32: when a save reports a failure, the owner's stored cart is the one
\* of before the call, row for row
C32_SaveAllOrNothing ==
    \A r \in Slots :
        (Done(r, "saveCart") /\ req[r].resp.status = 500) =>
            CartOf(cart, req[r].userId) = CartOf(req[r].pre.cart, req[r].userId)

(***************************************************************************)
(* What a sync leaves alone.                                               *)
(***************************************************************************)
\* C33: while syncs run, no step removes a cart line or lowers its
\* quantity, and a line changes only when a sync of its owner names its
\* (product, size) with a quantity > 0
C33_SyncNeverLowers ==
    [][\A row \in cart : \E n \in cart' :
          /\ n = [row EXCEPT !.quantity = n.quantity]
          /\ n.quantity >= row.quantity
          /\ n # row =>
                \E r \in Slots :
                    /\ req[r].op = "syncCart"
                    /\ req[r].userId = row.userId
                    /\ Incoming(req[r].cartItems, row.productId, row.size) # {}]_vars

(***************************************************************************)
(* The domain of the two status fields.                                    *)
(***************************************************************************)
\* C34: every order has a status among pending, processing, shipped,
\* delivered, cancelled and a payment status among pending, paid, failed,
\* and an order row is inserted with both at pending
C34_StatusDomain ==
    /\ [](\A o \in orders : /\ o.status \in ValidStatuses
                            /\ o.paymentStatus \in ValidPaymentStatuses)
    /\ [][\A n \in orders' :
             OrdersWithId(orders, n.id) = {} =>
                 n.status = "pending" /\ n.paymentStatus = "pending"]_vars

\* after updates of both fields an order is delivered and its payment failed
C34_Witness ==
    /\ Quiet
    /\ \E o \in orders : o.status = "delivered" /\ o.paymentStatus = "failed"

(***************************************************************************)
(* The stock check and the quantity filter.                                *)
(***************************************************************************)
\* the entries of a checkout cart that name an out-of-stock product of the
\* catalog and have no quantity > 0
LinelessOutOfStock(q) ==
    {i \in OutOfStockEntries(q) :
        \A k \in 1..Len(q.cartItems.entries[i].sizes) :
            q.cartItems.entries[i].sizes[k].quantity <= 0}

\* C35: a checkout that passed the preconditions and whose cart has an
\* out-of-stock product with no quantity > 0 is answered 400 "out of stock",
\* naming the first out-of-stock product of the cart, never "No valid items
\* in cart", and persists nothing (unless a database call threw)
C35_StockBeforeQuantity ==
    \A r \in Slots :
        (/\ Done(r, "createOrder")
         /\ PassedPreconditions(req[r])
         /\ LinelessOutOfStock(req[r]) # {}
         /\ req[r].resp.status # 500) =>
            LET i == Min(OutOfStockEntries(req[r]))
                p == NumberOf(ParseInt(req[r].cartItems.entries[i].key))
            IN  /\ req[r].resp.status = 400
                /\ req[r].resp.message = "is out of stock"
                /\ req[r].resp.product = products[p].name
                /\ NothingPersisted(req[r])

\* the cart {2: {M: 0, S: -1}, abc: {S: 1}} would give no line; product 2 is
\* out of stock and the answer is out of stock, not empty cart
C35_Witness ==
    /\ Done(1, "createOrder")
    /\ req[1].cartItems = Obj(<<E(<<"2">>, <<Q("M", 0), Q("S", -1)>>),
                                E(<<"a", "b", "c">>, <<Q("S", 1)>>)>>)
    /\ ~products[2].inStock
    /\ PurchasableEntries(req[1].cartItems) = {}
    /\ req[1].resp.message = "is out of stock"
    /\ req[1].resp.product = "Kente"

(***************************************************************************)
(* Reading orders.                                                         *)
(***************************************************************************)
ReadOps == {"getUserOrders", "getOrderById"}

\* C36: a read of orders leaves the store as it was; what it returns are
\* orders of the requester, the authenticated owner, with their lines; an
\* order of another owner and an order of a guest are never listed and are
\* answered 404 when asked for by id
C36_ReadsOwnerScoped ==
    \A r \in Slots :
        (req[r].op \in ReadOps /\ req[r].pc = "done") =>
            /\ orders = req[r].pre.orders
            /\ orderItems = req[r].pre.orderItems
            /\ cart = req[r].pre.cart
            /\ \A e \in req[r].resp.orders :
                  /\ e.row \in orders
                  /\ e.row.userId = req[r].auth
                  /\ e.items = ItemsOf(orderItems, e.row.id)
            /\ (req[r].op = "getUserOrders" /\ req[r].resp.status = 200) =>
                  {e.row : e \in req[r].resp.orders}
                     = {o \in orders : o.userId = req[r].auth}
            /\ req[r].resp.order # None =>
                  /\ req[r].resp.order[1].row \in orders
                  /\ req[r].resp.order[1].row.userId = req[r].auth
            /\ (/\ req[r].op = "getOrderById"
                /\ req[r].auth # NoUser
                /\ req[r].resp.status \notin {400, 500}
                /\ \E o \in OrdersWithId(orders, req[r].id) :
                      o.userId # req[r].auth) =>
                  req[r].resp.status = 404
====
